---- MODULE Spec2Model ----
(***************************************************************************)
(* State-machine model of scripts/find_camel_case.py: the todo-list        *)
(* session (TODO_LIST, CURRENT_INDEX), its JSON file in the temp           *)
(* directory, the interactive command loop and the pynput hotkey thread.   *)
(*                                                                         *)
(* Granularity.  Each thread's position is pc[t]; one action is one        *)
(* access to shared state (a global or the file) together with the local   *)
(* computation around it, so that the interleavings of the hotkey thread   *)
(* with the command loop, and a process kill between two file operations,  *)
(* are behaviours of the model.  A handler is the forced chain of its      *)
(* steps: its save is reached by control flow, never optional.  A thread   *)
(* has completed an operation when pc is "op_done" (command loop) or       *)
(* "hk_done" (hotkey thread), and then returns to "prompt" or "hk_idle",   *)
(* where the locals of the finished handler are gone.                      *)
(***************************************************************************)
EXTENDS Integers, Sequences, FiniteSets, TLC

\* ---------------------------------------------------------------- bounds
\* files of the scanned tree that can carry findings
MaxFiles == 2
\* findings of one scan, over all files
MaxItems == 3
\* kills of the process in the crash specification
MaxCrashes == 1
\* presses of a hotkey, and commands typed while the listener thread runs
MaxKeys == 1
MaxCommands == 1
\* files present in a tree whose scan is followed step by step
MaxTreeFiles == 3
\* lines and matches, in all the files, of a scan whose files have a text
MaxLines == 2
MaxTokens == 2
\* lines of a file that process_file is followed through, and how many of
\* them are not blank
MaxTextLines == 11
MaxMarked == 1

\* ------------------------------------------------------------ data model
\* Text is a sequence of character codes, so that two strings compare the
\* way Python compares them (code point by code point) and a substring test
\* (`skip in str(file_path)`) is computed on the characters.
Ch ==
    [dash |-> 45, dot |-> 46, slash |-> 47, underscore |-> 95, a |-> 97,
     b |-> 98, c |-> 99, d |-> 100, e |-> 101, f |-> 102, g |-> 103,
     h |-> 104, i |-> 105, j |-> 106, k |-> 107, l |-> 108, m |-> 109,
     n |-> 110, o |-> 111, p |-> 112, q |-> 113, r |-> 114, s |-> 115,
     t |-> 116, u |-> 117, v |-> 118, w |-> 119, x |-> 120, y |-> 121,
     z |-> 122]

Slash == <<Ch.slash>>

\* a < b for two strings, or two lists of integers
RECURSIVE SeqLess(_, _)
SeqLess(a, b) ==
    IF b = <<>> THEN FALSE
    ELSE IF a = <<>> THEN TRUE
    ELSE IF Head(a) # Head(b) THEN Head(a) < Head(b)
    ELSE SeqLess(Tail(a), Tail(b))

\* A pathlib path is the sequence of its parts.  str(path) joins them with
\* "/"; path < other compares the two lists of parts (PurePath.__lt__), each
\* part as a string.
RECURSIVE PathStr(_)
PathStr(parts) ==
    IF parts = <<>> THEN <<>>
    ELSE IF Len(parts) = 1 THEN parts[1]
    ELSE parts[1] \o Slash \o PathStr(Tail(parts))

RECURSIVE PathLess(_, _)
PathLess(p, q) ==
    IF q = <<>> THEN FALSE
    ELSE IF p = <<>> THEN TRUE
    ELSE IF Head(p) # Head(q) THEN SeqLess(Head(p), Head(q))
    ELSE PathLess(Tail(p), Tail(q))

\* The files of the scanned tree that can carry findings: a-b/x.c, a/x.c,
\* b/x.c, a/y.c, ... of which the first MaxFiles exist.
FilePaths ==
    << <<<<Ch.a, Ch.dash, Ch.b>>, <<Ch.x, Ch.dot, Ch.c>>>>,
       <<<<Ch.a>>, <<Ch.x, Ch.dot, Ch.c>>>>,
       <<<<Ch.b>>, <<Ch.x, Ch.dot, Ch.c>>>>,
       <<<<Ch.a>>, <<Ch.y, Ch.dot, Ch.c>>>>,
       <<<<Ch.a, Ch.dash, Ch.b>>, <<Ch.y, Ch.dot, Ch.c>>>>,
       <<<<Ch.b>>, <<Ch.y, Ch.dot, Ch.c>>>> >>

Files == {FilePaths[i] : i \in 1..MaxFiles}

\* One finding of process_file: (line_num, line_text, var_name, col_position);
\* line_text and var_name are carried along unchanged and are left out, the
\* column is find_var_position's result.
Finding(l, c) == [line_num |-> l, col |-> c]

\* The dict build_todo_list appends for one finding, with
\* "file_path": str(file_path) (row_0_based and col_0_based are functions of
\* line_num and column).
TodoItem(f, fnd) ==
    [file_path |-> PathStr(f), line_num |-> fnd.line_num, column |-> fnd.col]

NoItem == [file_path |-> <<>>, line_num |-> 0, column |-> 0]

\* (a build_todo_list that keeps only the first finding of each file)
FileItems_FirstOnly(f, findings) ==
    IF findings = <<>> THEN <<>> ELSE <<TodoItem(f, Head(findings))>>

RECURSIVE FileItems(_, _)
FileItems(f, findings) ==
    IF findings = <<>> THEN <<>>
    ELSE <<TodoItem(f, Head(findings))>> \o FileItems(f, Tail(findings))

\* A dict is the sequence of its (key, value) pairs in insertion order:
\* results.items().  sorted() compares the pairs as tuples, which the keys
\* decide since no two pairs of a dict have the same key; it is stable, here
\* an insertion sort.  (ItemLess_ByString: a sort that compares the paths as
\* the strings str() makes of them.)
ItemLess_ByString(x, y) == SeqLess(PathStr(x[1]), PathStr(y[1]))
ItemLess(x, y) == PathLess(x[1], y[1])

RECURSIVE InsertSorted(_, _)
InsertSorted(x, sorted) ==
    IF sorted = <<>> THEN <<x>>
    ELSE IF ItemLess(x, Head(sorted)) THEN <<x>> \o sorted
    ELSE <<Head(sorted)>> \o InsertSorted(x, Tail(sorted))

\* (a build_todo_list that takes the items as the dict has them)
SortedItems_AsInserted(items) == items

RECURSIVE SortedItems(_)
SortedItems(items) ==
    IF items = <<>> THEN <<>>
    ELSE InsertSorted(items[Len(items)], SortedItems(SubSeq(items, 1, Len(items) - 1)))

RECURSIVE FlattenFiles(_)
FlattenFiles(items) ==
    IF items = <<>> THEN <<>>
    ELSE (IF Head(items)[2] # <<>>
          THEN FileItems(Head(items)[1], Head(items)[2])
          ELSE <<>>) \o FlattenFiles(Tail(items))

\* build_todo_list: the new TODO_LIST (its save is the caller's next steps).
build_todo_list(results) == FlattenFiles(SortedItems(results))

\* What find_camel_case_variables can return on a small tree: a dict from
\* the files that have findings (line 283) to their findings in line order,
\* here one finding on each of the file's first lines, the files inserted in
\* the order of FilePaths.
RECURSIVE FindingsUpTo(_)
FindingsUpTo(k) == IF k = 0 THEN <<>> ELSE Append(FindingsUpTo(k - 1), Finding(k, 0))

RECURSIVE Total(_, _)
Total(counts, S) ==
    IF S = {} THEN 0
    ELSE LET f == CHOOSE x \in S : TRUE IN counts[f] + Total(counts, S \ {f})

RECURSIVE ResultsUpTo(_, _)
ResultsUpTo(counts, k) ==
    IF k = 0 THEN <<>>
    ELSE ResultsUpTo(counts, k - 1)
         \o (IF counts[FilePaths[k]] > 0
             THEN <<<<FilePaths[k], FindingsUpTo(counts[FilePaths[k]])>>>>
             ELSE <<>>)

ResultsOf(counts) == ResultsUpTo(counts, MaxFiles)

ScanResults ==
    {ResultsOf(counts) : counts \in {c \in [Files -> 0..MaxItems] : Total(c, Files) <= MaxItems}}

\* ------------------------------------------------------------- the scan
\* SKIP_PATHS (149-157) and is_cpp_file's extensions (168)
SKIP_PATHS ==
    {<<Ch.slash, Ch.b, Ch.u, Ch.i, Ch.l, Ch.d, Ch.slash>>,
     <<Ch.slash, Ch.d, Ch.e, Ch.p, Ch.s, Ch.slash>>,
     <<Ch.slash, Ch.l, Ch.i, Ch.b, Ch.slash>>,
     <<Ch.slash, Ch.t, Ch.h, Ch.i, Ch.r, Ch.d, Ch.underscore, Ch.p, Ch.a, Ch.r, Ch.t, Ch.y, Ch.slash>>,
     <<Ch.slash, Ch.e, Ch.x, Ch.t, Ch.e, Ch.r, Ch.n, Ch.a, Ch.l, Ch.slash>>,
     <<Ch.slash, Ch.v, Ch.e, Ch.n, Ch.d, Ch.o, Ch.r, Ch.slash>>,
     <<Ch.slash, Ch.t, Ch.e, Ch.s, Ch.t, Ch.slash>>}

extensions ==
    {<<Ch.dot, Ch.c, Ch.p, Ch.p>>,
     <<Ch.dot, Ch.c, Ch.c>>,
     <<Ch.dot, Ch.c, Ch.x, Ch.x>>,
     <<Ch.dot, Ch.c>>,
     <<Ch.dot, Ch.h, Ch.p, Ch.p>>,
     <<Ch.dot, Ch.h>>,
     <<Ch.dot, Ch.h, Ch.x, Ch.x>>,
     <<Ch.dot, Ch.i, Ch.n, Ch.l>>}

\* `sub in s` for two strings
Contains(s, sub) ==
    \E i \in 0..(Len(s) - Len(sub)) : SubSeq(s, i + 1, i + Len(sub)) = sub

\* `any(skip in s for skip in SKIP_PATHS)`
Skipped(s) == \E skip \in SKIP_PATHS : Contains(s, skip)

\* str.lower() on ASCII
Lower(c) == IF c >= 65 /\ c <= 90 THEN c + 32 ELSE c
LowerStr(str) == [i \in 1..Len(str) |-> Lower(str[i])]

\* PurePath.suffix: the name from its last dot, if that dot is neither the
\* first nor the last character
Suffix(name) ==
    LET dots == {i \in 1..Len(name) : name[i] = Ch.dot}
    IN IF dots = {} THEN <<>>
       ELSE LET i == CHOOSE d \in dots : \A e \in dots : e <= d
            IN IF i > 1 /\ i < Len(name) THEN SubSeq(name, i, Len(name)) ELSE <<>>

is_cpp_file(file_path) ==
    file_path # <<>> /\ LowerStr(Suffix(file_path[Len(file_path)])) \in extensions

\* the parts of the path a stored string names
RECURSIVE SplitPath(_, _)
SplitPath(str, part) ==
    IF str = <<>> THEN <<part>>
    ELSE IF Head(str) = Ch.slash THEN <<part>> \o SplitPath(Tail(str), <<>>)
    ELSE SplitPath(Tail(str), Append(part, Head(str)))

\* Path(root): the parts of the string, "." and empty parts dropped
IsPart(part) == part # <<>> /\ part # <<Ch.dot>>
PathOf(str) == SelectSeq(SplitPath(str, <<>>), IsPart)

\* os.path.join(root, d)
PathJoin(root, d) == root \o Slash \o d

\* The trees scanned.  TreeFiles are the files a tree can have below its
\* root, each in the directory dir (names from the root down): x.c, x.md,
\* a/x.c, build/x.c, a/build/x.c, build/a/x.c, b/x.c.  A tree gives each of them a
\* status: "absent", "hit" (readable, one finding), "clean" (readable, no
\* finding) or "unreadable" (open() fails).  At most MaxTreeFiles are present.
DirA == <<Ch.a>>
DirB == <<Ch.b>>
DirBuild == <<Ch.b, Ch.u, Ch.i, Ch.l, Ch.d>>
NameXC == <<Ch.x, Ch.dot, Ch.c>>
NameXMd == <<Ch.x, Ch.dot, Ch.m, Ch.d>>

TreeFiles ==
    << [dir |-> <<>>, name |-> NameXC],
       [dir |-> <<>>, name |-> NameXMd],
       [dir |-> <<DirA>>, name |-> NameXC],
       [dir |-> <<DirBuild>>, name |-> NameXC],
       [dir |-> <<DirA, DirBuild>>, name |-> NameXC],
       [dir |-> <<DirBuild, DirA>>, name |-> NameXC],
       [dir |-> <<DirB>>, name |-> NameXC] >>

FileStatus == {"absent", "hit", "clean", "unreadable"}

Present(tree) == {i \in DOMAIN tree : tree[i] # "absent"}

Trees ==
    {t \in [1..Len(TreeFiles) -> FileStatus] : Cardinality(Present(t)) <= MaxTreeFiles}

\* the command line's path: "." or the default "src"
BaseDirs == {<<Ch.dot>>, <<Ch.s, Ch.r, Ch.c>>}

IsPrefix(a, b) == Len(a) <= Len(b) /\ SubSeq(b, 1, Len(a)) = a

\* what os.scandir finds in the directory dir of the tree: the names of its
\* subdirectories and the names of its files
SubDirs(tree, dir) ==
    {TreeFiles[i].dir[Len(dir) + 1] :
        i \in {j \in Present(tree) : IsPrefix(dir, TreeFiles[j].dir) /\ TreeFiles[j].dir # dir}}

FilesIn(tree, dir) == {TreeFiles[i].name : i \in {j \in Present(tree) : TreeFiles[j].dir = dir}}

\* the orders in which a directory listing can come
Orders(S) ==
    {q \in [1..Cardinality(S) -> S] : \A i, j \in 1..Cardinality(S) : q[i] = q[j] => i = j}

\* the root string os.walk yields for the directory dir
RECURSIVE RootStr(_, _)
RootStr(base, dir) ==
    IF dir = <<>> THEN base
    ELSE PathJoin(RootStr(base, SubSeq(dir, 1, Len(dir) - 1)), dir[Len(dir)])

\* `dirs[:] = [d for d in dirs if not any(skip in os.path.join(root, d) ...)]`
KeepDir(root, d) == ~Skipped(PathJoin(root, d))

\* `is_cpp_file(file_path) and not any(skip in str(file_path) ...)`
KeepFile(file_path) == is_cpp_file(file_path) /\ ~Skipped(PathStr(file_path))

\* the status of the file a path of the walk names
StatusOf(tree, base, file_path) ==
    LET hits == {i \in Present(tree) :
                    PathOf(RootStr(base, TreeFiles[i].dir)) \o <<TreeFiles[i].name>> = file_path}
    IN IF hits = {} THEN "absent" ELSE tree[CHOOSE i \in hits : TRUE]

\* (a process_file without its try/except: the failure of open() leaves it)
process_file_NoCatch(status) ==
    [raised |-> status \in {"unreadable", "absent"},
     error |-> FALSE,
     results |-> IF status = "hit" THEN FindingsUpTo(1) ELSE <<>>]

\* process_file (186-253): the findings, or none and a report when the read
\* raised (the try/except around the whole body)
process_file(status) ==
    [raised |-> FALSE,
     error |-> status \in {"unreadable", "absent"},
     results |-> IF status = "hit" THEN FindingsUpTo(1) ELSE <<>>]

\* The text of a file, as far as the scan looks at it: each line is the
\* sequence of its matches from left to right, a match being a declaration
\* `Type name;` (VAR_PATTERN) or a use `this->name` (THIS_PATTERN) of a
\* camelCase name.  The k-th match of a line stands at column k-1.  (Files
\* without out-of-line method bodies: CLASS_METHOD_VAR_PATTERN, the third
\* pass, matches nothing.)
Names == {"aB", "cD"}
Tokens == [kind : {"decl", "this"}, name : Names]

\* the lines of exactly k matches, the texts of exactly n lines and k
\* matches, and the texts of nf files with at most n lines and k matches in
\* all
RECURSIVE LinesWith(_)
LinesWith(k) ==
    IF k = 0 THEN {<<>>} ELSE {Append(l, t) : l \in LinesWith(k - 1), t \in Tokens}

RECURSIVE TextsWith(_, _)
TextsWith(n, k) ==
    IF n = 0 THEN (IF k = 0 THEN {<<>>} ELSE {})
    ELSE UNION {{<<l>> \o rest : l \in LinesWith(j), rest \in TextsWith(n - 1, k - j)} :
                   j \in 0..k}

RECURSIVE TokenCount(_)
TokenCount(text) == IF text = <<>> THEN 0 ELSE Len(Head(text)) + TokenCount(Tail(text))

RECURSIVE ContentsUpTo(_, _, _)
ContentsUpTo(nf, n, k) ==
    IF nf = 0 THEN {<<>>}
    ELSE UNION {{<<text>> \o rest : text \in TextsWith(i, j),
                                     rest \in ContentsUpTo(nf - 1, n - i, k - j)} :
                   i \in 0..n, j \in 0..k}

\* find_var_position (198-200): line_text.find(var_name), the column of the
\* first occurrence of the name in the line
find_var_position(var_name, line) ==
    (CHOOSE i \in 1..Len(line) :
        line[i].name = var_name /\ \A j \in 1..(i - 1) : line[j].name # var_name) - 1

\* one pass over a line (207-221, 224-227): a finding for each match of the
\* pattern, in the order of the matches
PassFindings(line, line_num, kind) ==
    LET OfKind(t) == t.kind = kind
        matches == SelectSeq(line, OfKind)
    IN [i \in 1..Len(matches) |->
          Finding(line_num, find_var_position(matches[i].name, line))]

\* the passes over one line, in the order of the code: the declarations,
\* then the uses of this->
LineFindings(line, line_num) ==
    PassFindings(line, line_num, "decl") \o PassFindings(line, line_num, "this")

\* `for i, line in enumerate(lines)` (194-249): the findings of lines[from..]
RECURSIVE TextFindings(_, _)
TextFindings(text, from) ==
    IF from > Len(text) THEN <<>>
    ELSE LineFindings(text[from], from) \o TextFindings(text, from + 1)

\* process_file on a readable file of that text
process_text(text) ==
    [raised |-> FALSE, error |-> FALSE, results |-> TextFindings(text, 1)]

\* The text of a file as process_file reads it, line by line: a line is
\*   lead   what it begins with: nothing, the comment marker "// " or the
\*          preprocessor marker "# "
\*   deny   whether the keyword "return " follows (one of
\*          FALSE_POSITIVE_PATTERNS, 82-98)
\*   toks   its matches from left to right, a blank between two: a
\*          declaration `TT aB;` (VAR_PATTERN), a use `this->aB;`
\*          (THIS_PATTERN) or an out-of-line body `C::m(){aB;}`
\*          (CLASS_METHOD_VAR_PATTERN)
\* and ends with a newline (readlines keeps it).
WINDOW == 10

SourceTokens == [kind : {"decl", "this", "method"}, name : Names]

BlankLine == [lead |-> "", deny |-> FALSE, toks |-> <<>>]

SourceLines ==
    [lead : {"", "//", "#"}, deny : BOOLEAN,
     toks : {<<>>} \cup {<<t>> : t \in SourceTokens}]

\* the texts of exactly n lines, m of them not blank
RECURSIVE SourceTexts(_, _)
SourceTexts(n, m) ==
    IF n = 0 THEN (IF m = 0 THEN {<<>>} ELSE {})
    ELSE {<<BlankLine>> \o rest : rest \in SourceTexts(n - 1, m)}
         \cup (IF m = 0 THEN {}
               ELSE {<<l>> \o rest : l \in SourceLines \ {BlankLine},
                                     rest \in SourceTexts(n - 1, m - 1)})

\* the characters of each part, and where the name stands in a match
LeadWidth(lead) == CASE lead = "" -> 0 [] lead = "//" -> 3 [] lead = "#" -> 2
DenyWidth(deny) == IF deny THEN 7 ELSE 0
TokenWidth(t) == CASE t.kind = "decl" -> 6 [] t.kind = "this" -> 9 [] t.kind = "method" -> 11
NameOffset(t) == CASE t.kind = "decl" -> 3 [] t.kind = "this" -> 6 [] t.kind = "method" -> 7

\* the column of the k-th match of a line, and the length of the line with
\* its newline
RECURSIVE TokOffset(_, _)
TokOffset(line, k) ==
    IF k = 1 THEN LeadWidth(line.lead) + DenyWidth(line.deny)
    ELSE TokOffset(line, k - 1) + TokenWidth(line.toks[k - 1]) + 1

LineWidth(line) ==
    IF line.toks = <<>> THEN TokOffset(line, 1) + 1
    ELSE TokOffset(line, Len(line.toks) + 1)

\* `line.strip().startswith("#") or is_false_positive(line)` (172-177, 203)
SkipsLine(line) == line.lead = "#" \/ line.deny

\* find_var_position (198-200) on the characters: line_text.find(var_name),
\* `col if col >= 0 else 0`
LineFind(var_name, line) ==
    LET hits == {k \in 1..Len(line.toks) : line.toks[k].name = var_name}
    IN IF hits = {} THEN 0
       ELSE LET k == CHOOSE h \in hits : \A g \in hits : h <= g
            IN TokOffset(line, k) + NameOffset(line.toks[k])

\* the VAR_PATTERN pass (207-221) and the THIS_PATTERN pass (224-227) over
\* one line: a finding for each match
PatternFindings(line, line_num, kind) ==
    LET OfKind(t) == t.kind = kind
        matches == SelectSeq(line.toks, OfKind)
    IN [k \in 1..Len(matches) |-> Finding(line_num, LineFind(matches[k].name, line))]

\* `lines[max(0, i - 10) : min(len(lines), i + 10)]` (231): the bounds of the
\* slice, whose lines are lines[lo], ..., lines[hi - 1]
WindowSlice(i, n) ==
    [lo |-> IF i - WINDOW > 0 THEN i - WINDOW ELSE 0,
     hi |-> IF n < i + WINDOW THEN n ELSE i + WINDOW]

\* the matches of CLASS_METHOD_VAR_PATTERN in a line that starts at offset
\* `at` of the text searched: match.start() and group(3) of each
LineMatches(line, at) ==
    LET all == [k \in 1..Len(line.toks) |->
                  [kind |-> line.toks[k].kind, name |-> line.toks[k].name,
                   start |-> at + TokOffset(line, k)]]
        IsBody(m) == m.kind = "method"
    IN SelectSeq(all, IsBody)

\* finditer over "\n".join(lines[j..hi-1]) (0-based), the text before
\* lines[j] being `at` characters long
RECURSIVE WindowMatches(_, _, _, _)
WindowMatches(lines, j, hi, at) ==
    IF j >= hi THEN <<>>
    ELSE LineMatches(lines[j + 1], at)
         \o WindowMatches(lines, j + 1, hi, at + LineWidth(lines[j + 1]) + 1)

\* the third pass (230-249) at line i (0-based): a finding for each match
\* of the window with `i - 10 <= match.start() <= i + 10`
BlockFindings(lines, i) ==
    LET w == WindowSlice(i, Len(lines))
        Near(m) == i - WINDOW <= m.start /\ m.start <= i + WINDOW
        near == SelectSeq(WindowMatches(lines, w.lo, w.hi, 0), Near)
    IN [k \in 1..Len(near) |-> Finding(i + 1, LineFind(near[k].name, lines[i + 1]))]

\* the three passes over line i, in the order of the code
ScanFindings(lines, i) ==
    PatternFindings(lines[i + 1], i + 1, "decl")
    \o PatternFindings(lines[i + 1], i + 1, "this")
    \o BlockFindings(lines, i)

\* the scan of main: nothing to do, or the state of find_camel_case_variables:
\* the directories os.walk has still to visit, files_to_process, the files
\* whose worker has returned, how many results the loop over executor.map
\* has taken, and the errors printed; and of a call of process_file followed
\* line by line: its lines, the index i of its loop, the lines (first, last)
\* the third pass last searched, and its results
NoScan ==
    [state |-> "none", base |-> <<>>, tree |-> <<>>, dirs |-> <<>>,
     files_to_process |-> <<>>, returned |-> {}, taken |-> 0, errors |-> {},
     contents |-> <<>>,
     lines |-> <<>>, i |-> 0, window |-> <<>>, findings |-> <<>>]

\* ------------------------------------------------------------- JSON text
\* The file's text is a sequence of tokens, the chunks json.dump writes:
\*   {  "current_index": c  "items": [  item ...  ]  }
\* A token is a record of one shape so that any two compare.
Tok(k, n, v) == [k |-> k, n |-> n, v |-> v]
TObjOpen == Tok("{", 0, NoItem)
TObjClose == Tok("}", 0, NoItem)
TIndex(c) == Tok("current_index", c, NoItem)
TArrOpen == Tok("[", 0, NoItem)
TArrClose == Tok("]", 0, NoItem)
TItem(it) == Tok("item", 0, it)
\* bytes a write past the end of file leaves in the gap
TNul == Tok("nul", 0, NoItem)
\* the member `"current_index": null`, which no save of the program writes
TIndexNull == Tok("current_index_null", 0, NoItem)

RECURSIVE ItemToks(_)
ItemToks(items) ==
    IF items = <<>> THEN <<>> ELSE <<TItem(Head(items))>> \o ItemToks(Tail(items))

\* json.dump({"current_index": c, "items": items}, f) as one text.
JsonDump(c, items) ==
    <<TObjOpen, TIndex(c), TArrOpen>> \o ItemToks(items) \o <<TArrClose, TObjClose>>

\* text[lo..hi] is  [ item* ]
IsItemArray(text, lo, hi) ==
    /\ lo < hi
    /\ text[lo] = TArrOpen
    /\ text[hi] = TArrClose
    /\ \A i \in (lo + 1)..(hi - 1) : text[i].k = "item"

\* (a parser that loses the last element of the array)
ArrayItems_DropsLast(text, lo, hi) ==
    [i \in 1..(IF hi - lo - 2 > 0 THEN hi - lo - 2 ELSE 0) |-> text[lo + i].v]

ArrayItems(text, lo, hi) == [i \in 1..(hi - lo - 1) |-> text[lo + i].v]

\* json.load: the text is one JSON object with an optional "current_index"
\* member (a number, or null: index_null) followed by an optional "items"
\* member; anything else the program can meet in its file (empty or cut-off
\* text, text followed by more text, NUL bytes) raises JSONDecodeError.
JsonLoads(text) ==
    LET n == Len(text)
        bad == [ok |-> FALSE, has_index |-> FALSE, current_index |-> 0,
                index_null |-> FALSE, has_items |-> FALSE, items |-> <<>>]
    IN IF n < 2 \/ text[1] # TObjOpen \/ text[n] # TObjClose THEN bad
       ELSE LET hasIdx == n >= 3 /\ text[2].k \in {"current_index", "current_index_null"}
                isNull == hasIdx /\ text[2].k = "current_index_null"
                lo == IF hasIdx THEN 3 ELSE 2
                hi == n - 1
            IN IF lo > hi
               THEN [ok |-> TRUE, has_index |-> hasIdx,
                     current_index |-> IF hasIdx THEN text[2].n ELSE 0,
                     index_null |-> isNull,
                     has_items |-> FALSE, items |-> <<>>]
               ELSE IF IsItemArray(text, lo, hi)
               THEN [ok |-> TRUE, has_index |-> hasIdx,
                     current_index |-> IF hasIdx THEN text[2].n ELSE 0,
                     index_null |-> isNull,
                     has_items |-> TRUE, items |-> ArrayItems(text, lo, hi)]
               ELSE bad

\* (a load_todo_list without its try/except: the parse error goes unnoticed)
LoadResult_IgnoresParseError(f) ==
    LET data == JsonLoads(f.text)
    IN [found |-> f.exists, ok |-> f.exists, items |-> data.items,
        current_index |-> data.current_index, index_null |-> data.index_null]

\* (a load_todo_list that does not take the cursor from the record)
LoadResult_ForgetsCursor(f) ==
    IF ~f.exists
    THEN [found |-> FALSE, ok |-> FALSE, items |-> <<>>, current_index |-> 0,
          index_null |-> FALSE]
    ELSE LET data == JsonLoads(f.text)
         IN [found |-> TRUE, ok |-> data.ok, items |-> data.items, current_index |-> 0,
             index_null |-> FALSE]

\* load_todo_list's result on a file: found (os.path.exists), ok (json.load
\* raised nothing), and the values it assigns to the globals:
\* data.get("items", []) and data.get("current_index", 0), the latter None
\* when index_null.
LoadResult(f) ==
    IF ~f.exists
    THEN [found |-> FALSE, ok |-> FALSE, items |-> <<>>, current_index |-> 0,
          index_null |-> FALSE]
    ELSE LET data == JsonLoads(f.text)
         IN [found |-> TRUE, ok |-> data.ok, items |-> data.items,
             current_index |-> data.current_index, index_null |-> data.index_null]

\* Python sequence indexing: seq[i] with negative i counting from the end,
\* IndexError outside -len..len-1.
PyIndexOk(seq, i) == -Len(seq) <= i /\ i < Len(seq)
PyIndex(seq, i) == IF i >= 0 THEN seq[i + 1] ELSE seq[Len(seq) + i + 1]

\* (a pop that removes the first element whatever the index)
ListPop_First(seq, index) == [i \in 1..(Len(seq) - 1) |-> seq[i + 1]]

\* list.pop(index) for 0 <= index < len: the list without that element.
ListPop(seq, index) ==
    [i \in 1..(Len(seq) - 1) |-> IF i <= index THEN seq[i] ELSE seq[i + 1]]

\* The file after a write of toks at offset pos of a handle opened with "w"
\* (no append): bytes at the offset are overwritten, a gap is zero-filled.
WriteAt(text, pos, toks) ==
    LET n == IF Len(text) > pos + Len(toks) THEN Len(text) ELSE pos + Len(toks)
    IN [i \in 1..n |->
          IF i > pos /\ i <= pos + Len(toks) THEN toks[i - pos]
          ELSE IF i <= Len(text) THEN text[i]
          ELSE TNul]

\* ----------------------------------------------------------------- state
Threads == {"main", "hk"}

VARIABLES
    TODO_LIST,      \* the global list of item dicts
    CURRENT_INDEX,  \* the global cursor
    file,           \* TODO_FILE: [exists, text]
    pc,             \* position of each thread
    cmd,            \* the operation each thread is running: [op, arg, numeric]
    loc,            \* each thread's locals: [ci, n, index, j, fpos, opened, null]
    fx,             \* side effects of each thread's current operation, in order
    msg,            \* what each thread's current operation last reported
    pre,            \* session and file when the command loop read its command
    proc,           \* the process: [load_only, pynput, root_ok, results, exit_code, scan]
    hist            \* what completed, and what a kill interrupted

vars == <<TODO_LIST, CURRENT_INDEX, file, pc, cmd, loc, fx, msg, pre, proc, hist>>

Session == [list |-> TODO_LIST, ci |-> CURRENT_INDEX]

NoCmd == [op |-> "none", arg |-> 0, numeric |-> TRUE]
NoLoc == [ci |-> 0, n |-> 0, index |-> 0, j |-> 0, fpos |-> 0, opened |-> -1,
          null |-> FALSE]

\* A fresh interpreter: module-level TODO_LIST = [], CURRENT_INDEX = 0, the
\* main thread at the top of main(), no listener thread yet.
BootPc == [t \in Threads |-> IF t = "main" THEN "boot" ELSE "hk_off"]
BootCmd == [t \in Threads |-> IF t = "main" THEN [NoCmd EXCEPT !.op = "boot"] ELSE NoCmd]
BootLoc == [t \in Threads |-> NoLoc]
BootFx == [t \in Threads |-> <<>>]
BootMsg == [t \in Threads |-> ""]
\* the command line (--load-only, the path, and the editor: the default
\* IDE command, no popen failure) and the platform (pynput)
Process(loadOnly, pynput, rootOk, results) ==
    [load_only |-> loadOnly, pynput |-> pynput, root_ok |-> rootOk,
     results |-> results, exit_code |-> -1, scan |-> NoScan,
     editor |-> "ide", popen_fails |-> FALSE]

NoFile == [exists |-> FALSE, text |-> <<>>]

\* What an earlier run can have left in the temp directory: nothing, a
\* record (a run with the hotkey thread can leave a cursor outside the list,
\* so the cursor ranges one past both ends), or the beginning of a record if
\* the run was killed while it saved.
CompleteFiles ==
    {[exists |-> TRUE, text |-> JsonDump(c, build_todo_list(r))] :
        r \in ScanResults, c \in -1..MaxItems}

CutFiles ==
    UNION {{[exists |-> TRUE, text |-> SubSeq(JsonDump(0, build_todo_list(r)), 1, k)] :
               k \in 0..(Len(build_todo_list(r)) + 4)} : r \in ScanResults}

PriorFiles == {NoFile} \cup CompleteFiles \cup CutFiles

\* What the temp directory can hold beyond that, written by another program
\* or by hand: a record with `"current_index": null`, and records with a
\* member missing.
NullIndexFiles ==
    {[exists |-> TRUE,
      text |-> <<TObjOpen, TIndexNull, TArrOpen>> \o ItemToks(build_todo_list(r))
               \o <<TArrClose, TObjClose>>] : r \in ScanResults}

PartialFiles ==
    {[exists |-> TRUE, text |-> <<TObjOpen, TObjClose>>]}
    \cup {[exists |-> TRUE, text |-> <<TObjOpen, TIndex(c), TObjClose>>] : c \in 0..MaxItems}
    \cup {[exists |-> TRUE,
           text |-> <<TObjOpen, TArrOpen>> \o ItemToks(build_todo_list(r))
                    \o <<TArrClose, TObjClose>>] : r \in ScanResults}

ForeignFiles == {NoFile} \cup NullIndexFiles \cup PartialFiles

LoadableFiles == PriorFiles \cup ForeignFiles

\* History: done/lastDone, the session when this process last completed an
\* operation; killed, and of the process last killed: scanAtKill (it had
\* scanned), doneAtKill/lastAtKill (its done/lastDone) and liveAtKill (its
\* live session).
NoSession == [list |-> <<>>, ci |-> 0]
\* run, kept when run.on: the current run of consecutive completed n commands
\* on a non-empty list: the cursor the run started from and how many it has.
NoRun == [on |-> FALSE, start |-> 0, count |-> 0]
\* editors, kept when editors.on: how many of the editor processes that
\* open_in_editor started are running.
NoEditors == [on |-> FALSE, running |-> 0]
NoHist == [keys |-> 0, cmds |-> 0, done |-> FALSE, lastDone |-> NoSession, crashes |-> 0, killed |-> FALSE,
           scanAtKill |-> FALSE, doneAtKill |-> FALSE, lastAtKill |-> NoSession,
           liveAtKill |-> NoSession, run |-> NoRun, editors |-> NoEditors]

\* the run after the command loop completed op, which started with cursor c0
\* and left a list of n items: a run of n is complete, the next n starts anew
RunAfter(run, op, c0, n) ==
    IF ~run.on THEN run
    ELSE IF op = "n" /\ n > 0
    THEN IF run.count = 0 \/ run.count >= n
         THEN [run EXCEPT !.start = c0, !.count = 1]
         ELSE [run EXCEPT !.count = @ + 1]
    ELSE [run EXCEPT !.start = 0, !.count = 0]

Running == proc.exit_code = -1 /\ pc["main"] \notin {"exited", "killed"}

\* --------------------------------------------------------- control flow
\* where a handler returns to: the bottom of the while loop, or pynput
Idle(t) == IF t = "main" THEN "op_done" ELSE "hk_done"

\* Thread t moves to position p, reporting m ("" for nothing).  The command
\* loop's operation has completed at "op_done", and build_todo_list (a scan's
\* first operation) at "m_check".
HistAfter(t, p) ==
    IF t = "main" /\ (p = "op_done" \/ (p = "m_check" /\ ~proc.load_only))
    THEN [hist EXCEPT !.done = TRUE,
                      !.lastDone = [list |-> TODO_LIST', ci |-> CURRENT_INDEX'],
                      !.run = IF p = "op_done"
                              THEN RunAfter(@, cmd["main"].op, pre.ci, Len(TODO_LIST'))
                              ELSE @]
    ELSE hist

Go(t, p, m) ==
    /\ pc' = [pc EXCEPT ![t] = p]
    /\ msg' = IF m = "" THEN msg ELSE [msg EXCEPT ![t] = m]
    /\ hist' = HistAfter(t, p)
    /\ proc' = proc

\* (an interpreter that waits at exit for a listener thread that is alive,
\* as it does for a thread that is not a daemon)
ProcessEnds_WaitsForListener(listener) == listener \in {"hk_off", "hk_dead"}

\* whether the process ends when the main thread has left, the listener
\* thread being at pc listener: the listener and the keyboard_listener
\* thread are daemons (592, 797), and the editors are not waited for
ProcessEnds(listener) == TRUE

\* (a script that calls main() without passing its result to sys.exit)
Exit_CodeDropped(code, m) ==
    /\ pc' = [pc EXCEPT !["main"] = "exited"]
    /\ msg' = [msg EXCEPT !["main"] = m]
    /\ proc' = [proc EXCEPT !.exit_code = 0]
    /\ hist' = hist

\* main() returns code, or an exception leaves the main thread: sys.exit.
Exit(code, m) ==
    /\ pc' = [pc EXCEPT !["main"] = "exited"]
    /\ msg' = [msg EXCEPT !["main"] = m]
    /\ proc' = [proc EXCEPT !.exit_code = IF ProcessEnds(pc["hk"]) THEN code ELSE -1]
    /\ hist' = hist

\* (a command loop whose g and d commands have no try/except)
Raise_Uncaught(t, exc) ==
    IF t = "main" THEN Exit(1, exc) ELSE Go(t, "hk_dead", exc)

\* An exception raised in thread t.  The g and d commands catch ValueError and
\* IndexError (lines 709, 733); nothing else is caught: the main thread ends
\* the process with a traceback, the listener thread dies.
Raise(t, exc) ==
    IF t = "main"
    THEN IF cmd[t].op \in {"g", "d"} /\ exc \in {"ValueError", "IndexError"}
         THEN Go(t, "op_done", "invalid_index")
         ELSE Exit(1, exc)
    ELSE Go(t, "hk_dead", exc)

\* where save_todo_list returns to
AfterSave(op) ==
    CASE op \in {"n", "p", "g"} -> "dc_empty"
      [] op = "d" -> "d_after"
      [] op = "s" -> "s_done"
      [] op = "boot" -> "m_check"

\* (a d command that opens the item it displays, as the navigation does)
AfterDisplay_DeleteOpens(t, op) ==
    CASE op \in {"n", "p", "g", "d"} -> "ed_open"
      [] op = "boot" -> "m_hotkeys"
      [] OTHER -> Idle(t)

\* where display_current_item returns to
AfterDisplay(t, op) ==
    CASE op \in {"n", "p", "g"} -> "ed_open"
      [] op = "boot" -> "m_hotkeys"
      [] OTHER -> Idle(t)

\* ------------------------------------------- next_item / prev_item (421-448)
\* (a next_item without the wrap-around)
NavIndex_NoWrap(ci, delta, n) == ci + delta

\* (a next_item that stays on the last item instead of wrapping)
NavIndex_Sticks(ci, delta, n) == IF ci + delta = n THEN ci ELSE (ci + delta) % n

\* the cursor next_item (delta 1) and prev_item (delta -1) compute
NavIndex(ci, delta, n) == (ci + delta) % n

\* (a prev_item that moves forward like next_item)
Delta_AlwaysForward(op) == 1

Delta(op) == IF op = "p" THEN -1 ELSE 1

\* (a test for emptiness that never finds the list empty)
IsEmpty_Never(list) == FALSE

\* `not TODO_LIST` in next_item, prev_item and display_current_item
IsEmpty(list) == list = <<>>

\* `if not TODO_LIST: print("Todo list is empty."); return`
NavEmpty(t) ==
    /\ Running /\ pc[t] = "nav_empty"
    /\ UNCHANGED <<TODO_LIST, CURRENT_INDEX, file, cmd, loc, fx, pre>>
    /\ IF IsEmpty(TODO_LIST)
       THEN Go(t, Idle(t), "empty")
       ELSE Go(t, "nav_read", "")

\* the read of CURRENT_INDEX in `(CURRENT_INDEX + 1) % len(TODO_LIST)`
NavRead(t) ==
    /\ Running /\ pc[t] = "nav_read"
    /\ UNCHANGED <<TODO_LIST, CURRENT_INDEX, file, cmd, fx, pre>>
    /\ loc' = [loc EXCEPT ![t].ci = CURRENT_INDEX]
    /\ Go(t, "nav_len", "")

\* the read of len(TODO_LIST) and the modulo: ZeroDivisionError on length 0
NavLen(t) ==
    /\ Running /\ pc[t] = "nav_len"
    /\ UNCHANGED <<TODO_LIST, CURRENT_INDEX, file, cmd, fx, pre>>
    /\ loc' = [loc EXCEPT ![t].n = Len(TODO_LIST)]
    /\ IF Len(TODO_LIST) = 0
       THEN Raise(t, "ZeroDivisionError")
       ELSE Go(t, "nav_store", "")

\* (a g command that goes on to display without saving)
SaveNext_GotoSkipsSave(op) == IF op = "g" THEN "dc_empty" ELSE "sv_open"

\* what follows each store to the cursor or the list: save_todo_list()
\* (lines 310, 430, 445, 702, 726)
SaveNext(op) == "sv_open"

\* (a listener thread that advances a cursor of its own, not the global)
NavStore_OwnCopy(t) ==
    /\ Running /\ pc[t] = "nav_store"
    /\ UNCHANGED <<TODO_LIST, file, cmd, loc, fx, pre>>
    /\ CURRENT_INDEX' = IF t = "hk" THEN CURRENT_INDEX
                        ELSE NavIndex(loc[t].ci, Delta(cmd[t].op), loc[t].n)
    /\ Go(t, SaveNext(cmd[t].op), "")

\* the store to CURRENT_INDEX
NavStore(t) ==
    /\ Running /\ pc[t] = "nav_store"
    /\ UNCHANGED <<TODO_LIST, file, cmd, loc, fx, pre>>
    /\ CURRENT_INDEX' = NavIndex(loc[t].ci, Delta(cmd[t].op), loc[t].n)
    /\ Go(t, SaveNext(cmd[t].op), "")

\* ------------------------------------------------ save_todo_list (315-327)
\* open(TODO_FILE, "w"): the file is created or truncated to nothing
SaveOpen(t) ==
    /\ Running /\ pc[t] = "sv_open"
    /\ UNCHANGED <<TODO_LIST, CURRENT_INDEX, cmd, fx, pre>>
    /\ file' = [exists |-> TRUE, text |-> <<>>]
    /\ loc' = [loc EXCEPT ![t].fpos = 0, ![t].j = 1]
    /\ Go(t, "sv_head", "")

\* the dict literal reads CURRENT_INDEX; json.dump writes `{"current_index": c`
SaveHead(t) ==
    /\ Running /\ pc[t] = "sv_head"
    /\ UNCHANGED <<TODO_LIST, CURRENT_INDEX, cmd, fx, pre>>
    /\ file' = [file EXCEPT !.text = WriteAt(@, loc[t].fpos, <<TObjOpen, TIndex(CURRENT_INDEX)>>)]
    /\ loc' = [loc EXCEPT ![t].fpos = @ + 2]
    /\ Go(t, "sv_list", "")

\* the encoder's `if not lst: yield "[]"`
SaveList(t) ==
    /\ Running /\ pc[t] = "sv_list"
    /\ UNCHANGED <<TODO_LIST, CURRENT_INDEX, cmd, fx, pre>>
    /\ IF TODO_LIST = <<>>
       THEN /\ file' = [file EXCEPT !.text = WriteAt(@, loc[t].fpos, <<TArrOpen, TArrClose>>)]
            /\ loc' = [loc EXCEPT ![t].fpos = @ + 2]
            /\ Go(t, "sv_close", "")
       ELSE /\ UNCHANGED <<file, loc>>
            /\ Go(t, "sv_item", "")

\* the encoder's `for value in lst`: the list is read at each iteration; "["
\* goes out with the first item, "]" after the loop
SaveItem(t) ==
    /\ Running /\ pc[t] = "sv_item"
    /\ UNCHANGED <<TODO_LIST, CURRENT_INDEX, cmd, fx, pre>>
    /\ LET j == loc[t].j
           toks == IF j <= Len(TODO_LIST)
                   THEN (IF j = 1 THEN <<TArrOpen>> ELSE <<>>) \o <<TItem(TODO_LIST[j])>>
                   ELSE <<TArrClose>>
       IN /\ file' = [file EXCEPT !.text = WriteAt(@, loc[t].fpos, toks)]
          /\ loc' = [loc EXCEPT ![t].fpos = @ + Len(toks), ![t].j = j + 1]
          /\ Go(t, IF j <= Len(TODO_LIST) THEN "sv_item" ELSE "sv_close", "")

\* the closing "}" and the end of the with block; "Todo list saved to ..."
SaveClose(t) ==
    /\ Running /\ pc[t] = "sv_close"
    /\ UNCHANGED <<TODO_LIST, CURRENT_INDEX, cmd, pre>>
    /\ file' = [file EXCEPT !.text = WriteAt(@, loc[t].fpos, <<TObjClose>>)]
    /\ loc' = [loc EXCEPT ![t].fpos = @ + 1]
    /\ fx' = [fx EXCEPT ![t] = Append(@, "save")]
    /\ Go(t, AfterSave(cmd[t].op), "")

\* ------------------------------------------ display_current_item (403-418)
DisplayEmpty(t) ==
    /\ Running /\ pc[t] = "dc_empty"
    /\ UNCHANGED <<TODO_LIST, CURRENT_INDEX, file, cmd, loc, fx, pre>>
    /\ IF IsEmpty(TODO_LIST)
       THEN Go(t, AfterDisplay(t, cmd[t].op), "empty")
       ELSE Go(t, "dc_range", "")

\* (a display_current_item that tests the upper end of the range only)
DisplayRange_UpperOnly(t) ==
    /\ Running /\ pc[t] = "dc_range"
    /\ UNCHANGED <<TODO_LIST, CURRENT_INDEX, file, cmd, loc, fx, pre>>
    /\ IF CURRENT_INDEX >= Len(TODO_LIST)
       THEN Go(t, "dc_clamp", "")
       ELSE Go(t, "dc_item", "")

\* `if CURRENT_INDEX < 0 or CURRENT_INDEX >= len(TODO_LIST)`
DisplayRange(t) ==
    /\ Running /\ pc[t] = "dc_range"
    /\ UNCHANGED <<TODO_LIST, CURRENT_INDEX, file, cmd, loc, fx, pre>>
    /\ IF CURRENT_INDEX < 0 \/ CURRENT_INDEX >= Len(TODO_LIST)
       THEN Go(t, "dc_clamp", "")
       ELSE Go(t, "dc_item", "")

\* `CURRENT_INDEX = 0`
DisplayClamp(t) ==
    /\ Running /\ pc[t] = "dc_clamp"
    /\ UNCHANGED <<TODO_LIST, file, cmd, loc, fx, pre>>
    /\ CURRENT_INDEX' = 0
    /\ Go(t, "dc_item", "")

\* `item = TODO_LIST[CURRENT_INDEX]` and the prints
DisplayItem(t) ==
    /\ Running /\ pc[t] = "dc_item"
    /\ UNCHANGED <<TODO_LIST, CURRENT_INDEX, file, cmd, loc, pre>>
    /\ IF PyIndexOk(TODO_LIST, CURRENT_INDEX)
       THEN /\ fx' = [fx EXCEPT ![t] = Append(@, "show")]
            /\ Go(t, AfterDisplay(t, cmd[t].op), "item")
       ELSE /\ fx' = fx
            /\ Raise(t, "IndexError")

\* ------------------------------------------------ open_in_editor (352-400)
\* The editor of the command line: "ide" (--editor names an IntelliJ-family
\* command, the default: the template is not used), "template" (another
\* editor, with a template str.format can expand) or another editor with a
\* template on which str.format raises: KeyError on a field name that is
\* none of the five given, IndexError on a positional field, ValueError on
\* an unbalanced brace.
Editors == {"ide", "template", "KeyError", "IndexError", "ValueError"}

\* the editor processes running when open_in_editor has returned True:
\* subprocess.Popen (396) starts the shell and returns, it does not wait
EditorsAfter(running) == running + 1

\* an editor process ends, whenever it does
EditorExit ==
    /\ hist.editors.running > 0
    /\ UNCHANGED <<TODO_LIST, CURRENT_INDEX, file, pc, cmd, loc, fx, msg, pre, proc>>
    /\ hist' = [hist EXCEPT !.editors.running = @ - 1]

\* open_in_editor on an item: the exception that leaves it ("" for none: the
\* format call is outside its try block), and whether Popen started the
\* editor (its failure is caught, printed, and False returned)
open_in_editor(editor, popen_fails) ==
    IF editor \in {"ide", "template"}
    THEN [raised |-> "", started |-> ~popen_fails]
    ELSE [raised |-> editor, started |-> FALSE]

\* the call open_in_editor(TODO_LIST[CURRENT_INDEX], ...); opened is the
\* index of the item it was given
EditorOpen(t) ==
    /\ Running /\ pc[t] = "ed_open"
    /\ UNCHANGED <<TODO_LIST, CURRENT_INDEX, file, cmd, pre>>
    /\ IF PyIndexOk(TODO_LIST, CURRENT_INDEX)
       THEN LET r == open_in_editor(proc.editor, proc.popen_fails)
            IN /\ loc' = [loc EXCEPT ![t].opened = CURRENT_INDEX]
               /\ IF r.raised # ""
                  THEN /\ fx' = fx
                       /\ Raise(t, r.raised)
                  ELSE IF r.started
                  THEN /\ fx' = [fx EXCEPT ![t] = Append(@, "open")]
                       /\ pc' = [pc EXCEPT ![t] = Idle(t)]
                       /\ msg' = msg
                       /\ proc' = proc
                       /\ hist' = [HistAfter(t, Idle(t)) EXCEPT
                                     !.editors.running =
                                        IF hist.editors.on THEN EditorsAfter(@) ELSE @]
                  ELSE /\ fx' = [fx EXCEPT ![t] = Append(@, "open_failed")]
                       /\ Go(t, Idle(t), "editor_error")
       ELSE /\ fx' = fx
            /\ loc' = loc
            /\ Raise(t, "IndexError")

\* ------------------------------------------------- interactive_mode (653-736)
\* input() returns: the command loop starts the handler of one command.
Dispatch(op, arg, numeric, first, m) ==
    /\ Running /\ pc["main"] = "prompt"
    /\ (proc.pynput => hist.cmds < MaxCommands)
    /\ UNCHANGED <<TODO_LIST, CURRENT_INDEX, file, loc, proc>>
    /\ cmd' = [cmd EXCEPT !["main"] = [op |-> op, arg |-> arg, numeric |-> numeric]]
    /\ pre' = [list |-> TODO_LIST, ci |-> CURRENT_INDEX, file |-> file]
    /\ fx' = [fx EXCEPT !["main"] = <<>>]
    /\ msg' = [msg EXCEPT !["main"] = m]
    /\ pc' = [pc EXCEPT !["main"] = first]
    /\ hist' = [hist EXCEPT !.cmds = IF proc.pynput THEN @ + 1 ELSE @,
                            !.done = IF first = "op_done" THEN TRUE ELSE @,
                            !.lastDone = IF first = "op_done" THEN Session ELSE @,
                            !.run = IF first = "op_done"
                                    THEN RunAfter(@, op, CURRENT_INDEX, Len(TODO_LIST))
                                    ELSE @]

CmdNext == Dispatch("n", 0, TRUE, "nav_empty", "")
CmdPrev == Dispatch("p", 0, TRUE, "nav_empty", "")
\* (a c command dispatched to next_item instead of display_current_item)
CmdShow_Advances == Dispatch("c", 0, TRUE, "nav_empty", "")
CmdShow == Dispatch("c", 0, TRUE, "dc_empty", "")
CmdSave == Dispatch("s", 0, TRUE, "sv_open", "")
CmdReload == Dispatch("r", 0, TRUE, "ld_read", "")
\* k prints the key bindings; anything else prints "Unknown command"
CmdHotkeys == Dispatch("k", 0, TRUE, "op_done", "hotkeys")
CmdUnknown == Dispatch("?", 0, TRUE, "op_done", "unknown_command")
\* "g <num>" and "d <num>": num is any integer around the valid range, or
\* text int() rejects
CmdGoto ==
    \/ \E num \in 0..(Len(TODO_LIST) + 1) : Dispatch("g", num, TRUE, "g_check", "")
    \/ Dispatch("g", 0, FALSE, "g_check", "")
CmdDelete ==
    \/ \E num \in 0..(Len(TODO_LIST) + 1) : Dispatch("d", num, TRUE, "d_check", "")
    \/ Dispatch("d", 0, FALSE, "d_check", "")

\* q: break, main returns 0
CmdQuit ==
    /\ Running /\ pc["main"] = "prompt"
    /\ UNCHANGED <<TODO_LIST, CURRENT_INDEX, file, loc, fx, pre>>
    /\ cmd' = [cmd EXCEPT !["main"] = [NoCmd EXCEPT !.op = "q"]]
    /\ Exit(0, "")

\* "Todo list saved." after the s command's save
SaveDone ==
    /\ Running /\ pc["main"] = "s_done"
    /\ UNCHANGED <<TODO_LIST, CURRENT_INDEX, file, cmd, loc, fx, pre>>
    /\ Go("main", "op_done", "saved")

\* (a range test that lets the index one past the end through)
ValidIndex_OffByOne(index, n) == 0 <= index /\ index <= n

\* g: `index = int(...) - 1; if 0 <= index < len(TODO_LIST)`
ValidIndex(index, n) == 0 <= index /\ index < n

GotoCheck ==
    /\ Running /\ pc["main"] = "g_check"
    /\ UNCHANGED <<TODO_LIST, CURRENT_INDEX, file, cmd, fx, pre>>
    /\ IF ~cmd["main"].numeric
       THEN /\ loc' = loc
            /\ Raise("main", "ValueError")
       ELSE /\ loc' = [loc EXCEPT !["main"].index = cmd["main"].arg - 1]
            /\ IF ValidIndex(cmd["main"].arg - 1, Len(TODO_LIST))
               THEN Go("main", "g_store", "")
               ELSE Go("main", "op_done", "out_of_range")

\* `CURRENT_INDEX = index`
GotoStore ==
    /\ Running /\ pc["main"] = "g_store"
    /\ UNCHANGED <<TODO_LIST, file, cmd, loc, fx, pre>>
    /\ CURRENT_INDEX' = loc["main"].index
    /\ Go("main", SaveNext("g"), "")

DeleteCheck ==
    /\ Running /\ pc["main"] = "d_check"
    /\ UNCHANGED <<TODO_LIST, CURRENT_INDEX, file, cmd, fx, pre>>
    /\ IF ~cmd["main"].numeric
       THEN /\ loc' = loc
            /\ Raise("main", "ValueError")
       ELSE /\ loc' = [loc EXCEPT !["main"].index = cmd["main"].arg - 1]
            /\ IF ValidIndex(cmd["main"].arg - 1, Len(TODO_LIST))
               THEN Go("main", "d_pop", "")
               ELSE Go("main", "op_done", "out_of_range")

\* `item = TODO_LIST.pop(index)` and "Removed item ..."
DeletePop ==
    /\ Running /\ pc["main"] = "d_pop"
    /\ UNCHANGED <<CURRENT_INDEX, file, cmd, loc, fx, pre>>
    /\ TODO_LIST' = ListPop(TODO_LIST, loc["main"].index)
    /\ Go("main", "d_adj", "removed")

\* (the tests of the adjustment with the comparison turned round, and strict)
AfterRemoved_Reversed(ci, index) == ci < index
PastEnd_Strict(ci, n) == ci > n

\* the two tests of "Adjust current index if needed" (721, 723), on the list
\* after the pop
PastEnd(ci, n) == ci >= n
AfterRemoved(ci, index) == ci > index
\* the values they store (722, 724)
LastIndex(n) == IF n - 1 > 0 THEN n - 1 ELSE 0
Decrement(ci) == ci - 1

DeleteAdjust ==
    /\ Running /\ pc["main"] = "d_adj"
    /\ UNCHANGED <<TODO_LIST, CURRENT_INDEX, file, cmd, loc, fx, pre>>
    /\ IF PastEnd(CURRENT_INDEX, Len(TODO_LIST))
       THEN Go("main", "d_clamp", "")
       ELSE IF AfterRemoved(CURRENT_INDEX, loc["main"].index)
       THEN Go("main", "d_dec_read", "")
       ELSE Go("main", SaveNext("d"), "")

\* `CURRENT_INDEX = max(0, len(TODO_LIST) - 1)`
DeleteClamp ==
    /\ Running /\ pc["main"] = "d_clamp"
    /\ UNCHANGED <<TODO_LIST, file, cmd, loc, fx, pre>>
    /\ CURRENT_INDEX' = LastIndex(Len(TODO_LIST))
    /\ Go("main", SaveNext("d"), "")

\* `CURRENT_INDEX -= 1`: the read, then the store
DeleteDecRead ==
    /\ Running /\ pc["main"] = "d_dec_read"
    /\ UNCHANGED <<TODO_LIST, CURRENT_INDEX, file, cmd, fx, pre>>
    /\ loc' = [loc EXCEPT !["main"].ci = CURRENT_INDEX]
    /\ Go("main", "d_dec_store", "")

DeleteDecStore ==
    /\ Running /\ pc["main"] = "d_dec_store"
    /\ UNCHANGED <<TODO_LIST, file, cmd, loc, fx, pre>>
    /\ CURRENT_INDEX' = Decrement(loc["main"].ci)
    /\ Go("main", SaveNext("d"), "")

\* after the save: `if TODO_LIST: display_current_item()` else "now empty"
DeleteAfter ==
    /\ Running /\ pc["main"] = "d_after"
    /\ UNCHANGED <<TODO_LIST, CURRENT_INDEX, file, cmd, loc, fx, pre>>
    /\ IF TODO_LIST # <<>>
       THEN Go("main", "dc_empty", "")
       ELSE Go("main", "op_done", "now_empty")

\* ------------------------------------------------ load_todo_list (330-349)
\* exists, open, json.load and `TODO_LIST = data.get("items", [])`; a missing
\* file returns False, an exception prints "Error loading todo list" and
\* returns False
LoadRead ==
    /\ Running /\ pc["main"] = "ld_read"
    /\ UNCHANGED <<CURRENT_INDEX, file, cmd, pre>>
    /\ LET res == LoadResult(file)
       IN IF res.found /\ res.ok
          THEN /\ TODO_LIST' = res.items
               /\ loc' = [loc EXCEPT !["main"].ci = res.current_index,
                                      !["main"].null = res.index_null]
               /\ fx' = fx
               /\ Go("main", "ld_index", "")
          ELSE /\ UNCHANGED <<TODO_LIST, loc>>
               /\ fx' = [fx EXCEPT !["main"] =
                           Append(@, IF res.found THEN "load_error" ELSE "load_not_found")]
               /\ Go("main", "ld_fail", "")

\* None, the value of CURRENT_INDEX after `"current_index": null`
PyNone == "None"

\* `CURRENT_INDEX = data.get("current_index", 0)`, the prints, return True:
\* main goes on to its emptiness test, r to display_current_item.  The
\* second print evaluates CURRENT_INDEX + 1 (343): a TypeError on None, which
\* the except clause reports before load_todo_list returns False.
LoadIndex ==
    /\ Running /\ pc["main"] = "ld_index"
    /\ UNCHANGED <<TODO_LIST, file, cmd, loc, pre>>
    /\ IF loc["main"].null
       THEN /\ CURRENT_INDEX' = PyNone
            /\ fx' = [fx EXCEPT !["main"] = Append(@, "load_error")]
            /\ Go("main", "ld_fail", "")
       ELSE /\ CURRENT_INDEX' = loc["main"].ci
            /\ fx' = [fx EXCEPT !["main"] = Append(@, "loaded")]
            /\ Go("main", IF cmd["main"].op = "boot" THEN "m_check" ELSE "dc_empty", "")

\* the caller of a load that returned False: main returns 1 (758), r prints
\* "Could not reload todo list." (684)
LoadFailed ==
    /\ Running /\ pc["main"] = "ld_fail"
    /\ UNCHANGED <<TODO_LIST, CURRENT_INDEX, file, cmd, loc, fx, pre>>
    /\ IF cmd["main"].op = "boot"
       THEN Exit(1, "no_todo_list")
       ELSE Go("main", "op_done", "could_not_reload")

\* ------------------------------------------------------------ main (739-806)
\* --load-only: load; else the directory test, the scan and build_todo_list
\* up to its save
Boot ==
    /\ Running /\ pc["main"] = "boot"
    /\ UNCHANGED <<CURRENT_INDEX, file, cmd, loc, fx, pre>>
    /\ IF proc.load_only
       THEN /\ TODO_LIST' = TODO_LIST
            /\ Go("main", "ld_read", "")
       ELSE IF ~proc.root_ok
       THEN /\ TODO_LIST' = TODO_LIST
            /\ Exit(1, "invalid_root")
       ELSE IF proc.scan.state = "walk"
       THEN /\ TODO_LIST' = TODO_LIST
            /\ Go("main", "walk", "")
       ELSE IF proc.scan.state = "list"
       THEN /\ TODO_LIST' = TODO_LIST
            /\ Go("main", "list", "")
       ELSE /\ TODO_LIST' = build_todo_list(proc.results)
            /\ Go("main", SaveNext("boot"), "")

\* `if not TODO_LIST: return 0`, else display_current_item()
MainCheck ==
    /\ Running /\ pc["main"] = "m_check"
    /\ UNCHANGED <<TODO_LIST, CURRENT_INDEX, file, cmd, loc, fx, pre>>
    /\ IF TODO_LIST = <<>>
       THEN Exit(0, "nothing_to_do")
       ELSE Go("main", "dc_empty", "")

\* (a main that sets up the hotkeys whether or not pynput was imported)
ListenerStarts_Always(pynput) == TRUE

\* `if not PYNPUT_AVAILABLE: ... else: setup_hotkeys(...)` (779-793), and
\* setup_hotkeys' own test (512-522)
ListenerStarts(pynput) == pynput

\* with pynput: setup_hotkeys starts the listener thread; the first item is
\* opened next, then interactive_mode runs
MainHotkeys ==
    /\ Running /\ pc["main"] = "m_hotkeys"
    /\ UNCHANGED <<TODO_LIST, CURRENT_INDEX, file, cmd, loc, fx, pre, msg, hist, proc>>
    /\ pc' = [pc EXCEPT !["main"] = "ed_open",
                        !["hk"] = IF ListenerStarts(proc.pynput) THEN "hk_idle" ELSE @]

\* the while loop comes round to input() again; the handler's locals are gone
NoPre == [list |-> <<>>, ci |-> 0, file |-> [exists |-> FALSE, text |-> <<>>]]

LoopAgain ==
    /\ Running /\ pc["main"] = "op_done"
    /\ UNCHANGED <<TODO_LIST, CURRENT_INDEX, file, proc, hist>>
    /\ pc' = [pc EXCEPT !["main"] = "prompt"]
    /\ cmd' = [cmd EXCEPT !["main"] = NoCmd]
    /\ loc' = [loc EXCEPT !["main"] = NoLoc]
    /\ fx' = [fx EXCEPT !["main"] = <<>>]
    /\ msg' = [msg EXCEPT !["main"] = ""]
    /\ pre' = NoPre

\* ----------------------------------------------- hotkey listener (540-593)
\* the key combination fires: next_item_with_feedback or
\* prev_item_with_feedback runs in the listener thread
HotkeyPress ==
    /\ Running /\ pc["hk"] = "hk_idle" /\ hist.keys < MaxKeys
    /\ UNCHANGED <<TODO_LIST, CURRENT_INDEX, file, loc, pre, proc>>
    /\ hist' = [hist EXCEPT !.keys = @ + 1]
    /\ \E op \in {"n", "p"} : cmd' = [cmd EXCEPT !["hk"] = [NoCmd EXCEPT !.op = op]]
    /\ fx' = [fx EXCEPT !["hk"] = <<>>]
    /\ msg' = [msg EXCEPT !["hk"] = ""]
    /\ pc' = [pc EXCEPT !["hk"] = "nav_empty"]

\* the callback returns to the listener's event loop
HotkeyReturn ==
    /\ Running /\ pc["hk"] = "hk_done"
    /\ UNCHANGED <<TODO_LIST, CURRENT_INDEX, file, pre, proc, hist>>
    /\ pc' = [pc EXCEPT !["hk"] = "hk_idle"]
    /\ cmd' = [cmd EXCEPT !["hk"] = NoCmd]
    /\ loc' = [loc EXCEPT !["hk"] = NoLoc]
    /\ fx' = [fx EXCEPT !["hk"] = <<>>]
    /\ msg' = [msg EXCEPT !["hk"] = ""]

\* ------------------------------------------------------- process lifecycle
\* the process is killed: its memory is gone, the file stays as it is
Kill ==
    /\ Running /\ hist.crashes < MaxCrashes
    /\ UNCHANGED <<file, proc>>
    /\ TODO_LIST' = <<>>
    /\ CURRENT_INDEX' = 0
    /\ pc' = [t \in Threads |-> IF t = "main" THEN "killed" ELSE "hk_off"]
    /\ cmd' = BootCmd
    /\ loc' = BootLoc
    /\ fx' = BootFx
    /\ msg' = BootMsg
    /\ pre' = NoPre
    /\ hist' = [keys |-> hist.keys, cmds |-> hist.cmds, crashes |-> hist.crashes + 1, killed |-> TRUE, done |-> FALSE,
                lastDone |-> NoSession, scanAtKill |-> ~proc.load_only,
                doneAtKill |-> hist.done, lastAtKill |-> hist.lastDone,
                liveAtKill |-> Session, run |-> hist.run, editors |-> hist.editors]

\* the user runs the program again with --load-only
NoResults == ResultsOf([f \in Files |-> 0])

Restart ==
    /\ pc["main"] = "killed"
    /\ UNCHANGED <<TODO_LIST, CURRENT_INDEX, file, cmd, loc, fx, msg, hist>>
    /\ pc' = BootPc
    /\ pre' = [NoPre EXCEPT !.file = file]
    /\ proc' = Process(TRUE, FALSE, TRUE, NoResults)

\* ------------------------------------ find_camel_case_variables (256-286)
\* One round of `for root, dirs, files in os.walk(base_dir)`: the listing of
\* the next directory comes in some order, its subdirectories are pruned and
\* the rest queued ahead of what remained, its files are tested and appended
\* to files_to_process.
WalkDir ==
    /\ Running /\ pc["main"] = "walk" /\ proc.scan.dirs # <<>>
    /\ UNCHANGED <<TODO_LIST, CURRENT_INDEX, file, cmd, loc, fx, msg, pre, hist>>
    /\ LET sc == proc.scan
           dir == Head(sc.dirs)
           root == RootStr(sc.base, dir)
           Keep(d) == KeepDir(root, d)
       IN \E ds \in Orders(SubDirs(sc.tree, dir)), fs \in Orders(FilesIn(sc.tree, dir)) :
             LET kept == SelectSeq(ds, Keep)
                 below == [i \in 1..Len(kept) |-> Append(dir, kept[i])]
                 paths == [i \in 1..Len(fs) |-> PathOf(root) \o <<fs[i]>>]
                 rest == below \o Tail(sc.dirs)
             IN /\ proc' = [proc EXCEPT
                              !.scan.dirs = rest,
                              !.scan.files_to_process = @ \o SelectSeq(paths, KeepFile)]
                /\ pc' = [pc EXCEPT !["main"] = IF rest = <<>> THEN "map" ELSE "walk"]

\* The walk over a tree that has the files FilePaths[1..MaxFiles], all kept:
\* they come in the order of the directory listings.
ListFiles ==
    /\ Running /\ pc["main"] = "list"
    /\ UNCHANGED <<TODO_LIST, CURRENT_INDEX, file, cmd, loc, fx, msg, pre, hist>>
    /\ \E order \in Orders(1..MaxFiles) :
          proc' = [proc EXCEPT
                     !.scan.files_to_process = [i \in 1..MaxFiles |-> FilePaths[order[i]]]]
    /\ pc' = [pc EXCEPT !["main"] = "map"]

\* what process_file returns for a file of the scan: from its text when the
\* scan has the texts, else from its status in the tree
FileScan(f) ==
    IF proc.scan.contents # <<>>
    THEN process_text(proc.scan.contents[CHOOSE i \in 1..MaxFiles : FilePaths[i] = f])
    ELSE process_file(StatusOf(proc.scan.tree, proc.scan.base, f))

\* a worker process returns from process_file for one of the submitted files
\* (in any order), having printed the error if the read failed
Worker ==
    /\ Running /\ pc["main"] = "map"
    /\ UNCHANGED <<TODO_LIST, CURRENT_INDEX, file, pc, cmd, loc, fx, msg, pre, hist>>
    /\ \E i \in (1..Len(proc.scan.files_to_process)) \ proc.scan.returned :
          LET f == proc.scan.files_to_process[i]
              r == FileScan(f)
          IN proc' = [proc EXCEPT
                        !.scan.returned = @ \cup {i},
                        !.scan.errors = IF r.error THEN @ \cup {f} ELSE @]

\* (an iteration over the results that does not wait for the worker)
ResultReady_NoWait(returned, i) == TRUE

\* the iterator of executor.map blocks in the result() of the i-th future
\* until its worker has returned
ResultReady(returned, i) == i \in returned

\* `for file_path, results in executor.map(...)`: the loop takes the next
\* result in the order of files_to_process once its worker has returned, and
\* an exception of the worker is raised here
Collect ==
    /\ Running /\ pc["main"] = "map"
    /\ proc.scan.taken < Len(proc.scan.files_to_process)
    /\ ResultReady(proc.scan.returned, proc.scan.taken + 1)
    /\ UNCHANGED <<TODO_LIST, CURRENT_INDEX, file, cmd, loc, fx, pre, hist>>
    /\ LET f == proc.scan.files_to_process[proc.scan.taken + 1]
           r == FileScan(f)
       IN IF r.raised
          THEN /\ pc' = [pc EXCEPT !["main"] = "exited"]
               /\ msg' = [msg EXCEPT !["main"] = "OSError"]
               /\ proc' = [proc EXCEPT !.exit_code = 1]
          ELSE /\ pc' = pc
               /\ msg' = msg
               /\ proc' = [proc EXCEPT
                             !.scan.taken = @ + 1,
                             !.results = IF r.results # <<>>
                                         THEN Append(@, <<f, r.results>>)
                                         ELSE @]

\* find_camel_case_variables returns and main calls build_todo_list(results)
ScanBuild ==
    /\ Running /\ pc["main"] = "map"
    /\ proc.scan.taken = Len(proc.scan.files_to_process)
    /\ UNCHANGED <<CURRENT_INDEX, file, cmd, loc, fx, msg, pre, hist>>
    /\ TODO_LIST' = build_todo_list(proc.results)
    /\ proc' = [proc EXCEPT !.scan.state = "done"]
    /\ pc' = [pc EXCEPT !["main"] = SaveNext("boot")]

\* ------------------------------------------------ process_file (186-253)
\* `for i, line in enumerate(lines)`: a line the skip test rejects is left
\* with `continue`, before any of the passes
SkipLine ==
    /\ Running /\ pc["main"] = "pf_line"
    /\ proc.scan.i < Len(proc.scan.lines)
    /\ SkipsLine(proc.scan.lines[proc.scan.i + 1])
    /\ UNCHANGED <<TODO_LIST, CURRENT_INDEX, file, pc, cmd, loc, fx, msg, pre, hist>>
    /\ proc' = [proc EXCEPT !.scan.i = @ + 1, !.scan.window = <<>>]

\* any other line goes through the three passes, the third over the window
ScanLine ==
    /\ Running /\ pc["main"] = "pf_line"
    /\ proc.scan.i < Len(proc.scan.lines)
    /\ ~SkipsLine(proc.scan.lines[proc.scan.i + 1])
    /\ UNCHANGED <<TODO_LIST, CURRENT_INDEX, file, pc, cmd, loc, fx, msg, pre, hist>>
    /\ LET i == proc.scan.i
           w == WindowSlice(i, Len(proc.scan.lines))
       IN proc' = [proc EXCEPT
                     !.scan.i = i + 1,
                     !.scan.window = <<w.lo, w.hi - 1>>,
                     !.scan.findings = @ \o ScanFindings(proc.scan.lines, i)]

\* `return file_path, results`
ProcessReturn ==
    /\ Running /\ pc["main"] = "pf_line"
    /\ proc.scan.i = Len(proc.scan.lines)
    /\ UNCHANGED <<TODO_LIST, CURRENT_INDEX, file, cmd, loc, fx, msg, pre, hist, proc>>
    /\ pc' = [pc EXCEPT !["main"] = "pf_done"]

\* --------------------------------------------------------- specifications
\* One run of the program: a scan of a valid or invalid root with no earlier
\* file, or --load-only on whatever an earlier run left.
StartProc(pynput, h, editor, popen_fails) ==
    /\ TODO_LIST = <<>>
    /\ CURRENT_INDEX = 0
    /\ pc = BootPc
    /\ cmd = BootCmd
    /\ loc = BootLoc
    /\ fx = BootFx
    /\ msg = BootMsg
    /\ hist = h
    /\ \E lo \in BOOLEAN, ok \in BOOLEAN, r \in ScanResults, f \in PriorFiles :
          /\ (lo => r = NoResults /\ ok)
          /\ (~lo => f = NoFile)
          /\ proc = [Process(lo, pynput, ok, r) EXCEPT !.editor = editor,
                                                       !.popen_fails = popen_fails]
          /\ file = f
    /\ pre = [list |-> <<>>, ci |-> 0, file |-> file]

StartWith(pynput, h) == StartProc(pynput, h, "ide", FALSE)

Start(pynput) == StartWith(pynput, NoHist)

\* the command loop alone (pynput not installed)
Init == Start(FALSE)

MainStep ==
    \/ NavEmpty("main") \/ NavRead("main") \/ NavLen("main") \/ NavStore("main")
    \/ SaveOpen("main") \/ SaveHead("main") \/ SaveList("main") \/ SaveItem("main")
    \/ SaveClose("main")
    \/ DisplayEmpty("main") \/ DisplayRange("main") \/ DisplayClamp("main")
    \/ DisplayItem("main") \/ EditorOpen("main")

Next ==
    \/ Boot \/ MainCheck \/ MainHotkeys
    \/ CmdNext \/ CmdPrev \/ CmdShow \/ CmdSave \/ CmdReload \/ CmdHotkeys
    \/ CmdUnknown \/ CmdGoto \/ CmdDelete \/ CmdQuit
    \/ SaveDone \/ GotoCheck \/ GotoStore
    \/ DeleteCheck \/ DeletePop \/ DeleteAdjust \/ DeleteClamp \/ DeleteDecRead
    \/ DeleteDecStore \/ DeleteAfter
    \/ LoadRead \/ LoadIndex \/ LoadFailed \/ LoopAgain
    \/ MainStep

Spec == Init /\ [][Next]_vars

\* the command loop alone, keeping the history of its runs of n commands
InitRun == StartWith(FALSE, [NoHist EXCEPT !.run.on = TRUE])

SpecRun == InitRun /\ [][Next]_vars

\* the command loop alone, with any editor and a Popen that works or fails
InitEditor == \E e \in Editors, pf \in BOOLEAN : StartProc(FALSE, NoHist, e, pf)

SpecEditor == InitEditor /\ [][Next]_vars

\* the start of the program after a scan, with the listener thread and an
\* editor template that str.format cannot expand: main up to its first
\* open_in_editor, and a hotkey pressed once the listener runs
InitLaunch ==
    /\ \E e \in Editors \ {"ide", "template"} : StartProc(TRUE, NoHist, e, FALSE)
    /\ ~proc.load_only /\ proc.root_ok

NextLaunch ==
    \/ Boot \/ MainCheck \/ MainHotkeys
    \/ SaveOpen("main") \/ SaveHead("main") \/ SaveList("main") \/ SaveItem("main")
    \/ SaveClose("main")
    \/ DisplayEmpty("main") \/ DisplayRange("main") \/ DisplayItem("main")
    \/ EditorOpen("main")
    \/ HotkeyPress
    \/ NavEmpty("hk") \/ NavRead("hk") \/ NavLen("hk") \/ NavStore("hk")
    \/ SaveOpen("hk") \/ SaveHead("hk") \/ SaveList("hk") \/ SaveItem("hk")
    \/ SaveClose("hk")
    \/ DisplayEmpty("hk") \/ DisplayRange("hk") \/ DisplayItem("hk")
    \/ EditorOpen("hk")

SpecLaunch == InitLaunch /\ [][NextLaunch]_vars

\* a scan followed step by step, up to the list it builds and saves
NoTree == [i \in 1..Len(TreeFiles) |-> "absent"]

InitScan ==
    /\ TODO_LIST = <<>>
    /\ CURRENT_INDEX = 0
    /\ pc = BootPc
    /\ cmd = BootCmd
    /\ loc = BootLoc
    /\ fx = BootFx
    /\ msg = BootMsg
    /\ hist = NoHist
    /\ file = NoFile
    /\ pre = NoPre
    /\ \E ok \in BOOLEAN, base \in BaseDirs, tree \in Trees :
          /\ (~ok => tree = NoTree)
          /\ proc = [Process(FALSE, FALSE, ok, <<>>) EXCEPT
                       !.scan = [NoScan EXCEPT !.state = "walk", !.base = base,
                                               !.tree = tree, !.dirs = <<<<>>>>]]

NextScan ==
    \/ Boot \/ WalkDir \/ Worker \/ Collect \/ ScanBuild
    \/ SaveOpen("main") \/ SaveHead("main") \/ SaveList("main") \/ SaveItem("main")
    \/ SaveClose("main")

SpecScan == InitScan /\ [][NextScan]_vars

\* a scan followed step by step, and main up to the first item it displays
\* and opens
NextBarrier ==
    \/ NextScan \/ MainCheck \/ MainHotkeys
    \/ DisplayEmpty("main") \/ DisplayRange("main") \/ DisplayItem("main")
    \/ EditorOpen("main")

SpecBarrier == InitScan /\ [][NextBarrier]_vars

\* a scan of files whose text is given, the walk left out: the workers, the
\* results, and the list built and saved
InitBuild ==
    /\ TODO_LIST = <<>>
    /\ CURRENT_INDEX = 0
    /\ pc = BootPc
    /\ cmd = BootCmd
    /\ loc = BootLoc
    /\ fx = BootFx
    /\ msg = BootMsg
    /\ hist = NoHist
    /\ file = NoFile
    /\ pre = NoPre
    /\ \E contents \in ContentsUpTo(MaxFiles, MaxLines, MaxTokens) :
          proc = [Process(FALSE, FALSE, TRUE, <<>>) EXCEPT
                    !.scan = [NoScan EXCEPT !.state = "list", !.contents = contents]]

NextBuild ==
    \/ Boot \/ ListFiles \/ Worker \/ Collect \/ ScanBuild
    \/ SaveOpen("main") \/ SaveHead("main") \/ SaveList("main") \/ SaveItem("main")
    \/ SaveClose("main")

SpecBuild == InitBuild /\ [][NextBuild]_vars

\* one call of process_file on a readable file, followed line by line
InitLines ==
    /\ TODO_LIST = <<>>
    /\ CURRENT_INDEX = 0
    /\ pc = [BootPc EXCEPT !["main"] = "pf_line"]
    /\ cmd = BootCmd
    /\ loc = BootLoc
    /\ fx = BootFx
    /\ msg = BootMsg
    /\ hist = NoHist
    /\ file = NoFile
    /\ pre = NoPre
    /\ \E n \in 0..MaxTextLines, m \in 0..MaxMarked :
          \E text \in SourceTexts(n, m) :
             proc = [Process(FALSE, FALSE, TRUE, <<>>) EXCEPT
                       !.scan = [NoScan EXCEPT !.state = "lines", !.lines = text]]

NextLines == SkipLine \/ ScanLine \/ ProcessReturn

SpecLines == InitLines /\ [][NextLines]_vars

\* a session that only reloads and quits, started by a scan or by --load-only
\* on any file, while the file can be replaced from outside between commands
InitLoad ==
    /\ TODO_LIST = <<>>
    /\ CURRENT_INDEX = 0
    /\ pc = BootPc
    /\ cmd = BootCmd
    /\ loc = BootLoc
    /\ fx = BootFx
    /\ msg = BootMsg
    /\ hist = NoHist
    /\ \E lo \in BOOLEAN, r \in ScanResults, f \in LoadableFiles :
          /\ (lo => r = NoResults)
          /\ (~lo => f = NoFile)
          /\ proc = Process(lo, FALSE, TRUE, r)
          /\ file = f
    /\ pre = [list |-> <<>>, ci |-> 0, file |-> file]

\* another program writes or removes the file while the command loop waits
\* for input
FileReplaced ==
    /\ Running /\ pc["main"] = "prompt"
    /\ UNCHANGED <<TODO_LIST, CURRENT_INDEX, pc, cmd, loc, fx, msg, pre, proc, hist>>
    /\ \E f \in ForeignFiles \ {file} : file' = f

NextLoad ==
    \/ Boot \/ MainCheck \/ MainHotkeys \/ LoopAgain
    \/ CmdReload \/ CmdQuit
    \/ LoadRead \/ LoadIndex \/ LoadFailed
    \/ SaveOpen("main") \/ SaveHead("main") \/ SaveList("main") \/ SaveItem("main")
    \/ SaveClose("main")
    \/ DisplayEmpty("main") \/ DisplayRange("main") \/ DisplayClamp("main")
    \/ DisplayItem("main") \/ EditorOpen("main")
    \/ FileReplaced

SpecLoad == InitLoad /\ [][NextLoad]_vars

\* the command loop and a process that can be killed at any point and
\* started again
NextCrash == Next \/ Kill \/ Restart

SpecCrash == Init /\ [][NextCrash]_vars

\* the command loop and the listener thread, after a scan
InitHotkey == Start(TRUE) /\ ~proc.load_only /\ proc.root_ok

HotkeyStep ==
    \/ HotkeyPress \/ HotkeyReturn
    \/ NavEmpty("hk") \/ NavRead("hk") \/ NavLen("hk") \/ NavStore("hk")
    \/ SaveOpen("hk") \/ SaveHead("hk") \/ SaveList("hk") \/ SaveItem("hk")
    \/ SaveClose("hk")
    \/ DisplayEmpty("hk") \/ DisplayRange("hk") \/ DisplayClamp("hk")
    \/ DisplayItem("hk") \/ EditorOpen("hk")

NextHotkey == Next \/ HotkeyStep

SpecHotkey == InitHotkey /\ [][NextHotkey]_vars

\* a session with the listener thread, after a scan, that only steps forward
\* and quits, and the editor processes it starts
InitShutdown ==
    /\ StartWith(TRUE, [NoHist EXCEPT !.editors.on = TRUE])
    /\ ~proc.load_only /\ proc.root_ok

NextShutdown ==
    \/ Boot \/ MainCheck \/ MainHotkeys \/ LoopAgain
    \/ CmdNext \/ CmdQuit
    \/ NavEmpty("main") \/ NavRead("main") \/ NavLen("main") \/ NavStore("main")
    \/ SaveOpen("main") \/ SaveHead("main") \/ SaveList("main") \/ SaveItem("main")
    \/ SaveClose("main")
    \/ DisplayEmpty("main") \/ DisplayRange("main") \/ DisplayItem("main")
    \/ EditorOpen("main")
    \/ HotkeyPress \/ HotkeyReturn
    \/ NavEmpty("hk") \/ NavRead("hk") \/ NavLen("hk") \/ NavStore("hk")
    \/ SaveOpen("hk") \/ SaveHead("hk") \/ SaveList("hk") \/ SaveItem("hk")
    \/ SaveClose("hk")
    \/ DisplayEmpty("hk") \/ DisplayRange("hk") \/ DisplayItem("hk")
    \/ EditorOpen("hk")
    \/ EditorExit

SpecShutdown == InitShutdown /\ [][NextShutdown]_vars

\* a session with the listener thread, after a scan, whose commands are c
\* and n
NextVisible ==
    \/ Boot \/ MainCheck \/ MainHotkeys \/ LoopAgain
    \/ CmdShow \/ CmdNext
    \/ NavEmpty("main") \/ NavRead("main") \/ NavLen("main") \/ NavStore("main")
    \/ SaveOpen("main") \/ SaveHead("main") \/ SaveList("main") \/ SaveItem("main")
    \/ SaveClose("main")
    \/ DisplayEmpty("main") \/ DisplayRange("main") \/ DisplayItem("main")
    \/ EditorOpen("main")
    \/ HotkeyPress \/ HotkeyReturn
    \/ NavEmpty("hk") \/ NavRead("hk") \/ NavLen("hk") \/ NavStore("hk")
    \/ SaveOpen("hk") \/ SaveHead("hk") \/ SaveList("hk") \/ SaveItem("hk")
    \/ SaveClose("hk")
    \/ DisplayEmpty("hk") \/ DisplayRange("hk") \/ DisplayItem("hk")
    \/ EditorOpen("hk")

SpecVisible == InitHotkey /\ [][NextVisible]_vars

\* the same steps on either platform: pynput imported (after a scan), or not
\* (a scan or --load-only)
InitPlatform == \E p \in BOOLEAN : Start(p) /\ (p => ~proc.load_only /\ proc.root_ok)

SpecPlatform == InitPlatform /\ [][NextHotkey]_vars

\* ------------------------------------------------------------- properties
MainOp == cmd["main"].op
MainDone == pc["main"] = "op_done"
SavePcs == {"sv_open", "sv_head", "sv_list", "sv_item", "sv_close"}
InRange(ci, list) == 0 <= ci /\ ci < Len(list)
\* the file holds exactly the record of the live session
RecordIsLive ==
    LET res == LoadResult(file)
    IN res.found /\ res.ok /\ res.items = TODO_LIST /\ res.current_index = CURRENT_INDEX
\* the 0-based index a g or d command names, and whether it is valid in the
\* list the command found
ArgIndex == cmd["main"].arg - 1
ArgValid == cmd["main"].numeric /\ 0 <= ArgIndex /\ ArgIndex < Len(pre.list)
Max0(x) == IF x > 0 THEN x ELSE 0

\* C1: in a session built by a scan, with no listener thread, whenever the
\* list is non-empty the cursor is a valid index of it: after every
\* completed operation, at the prompt, and at every point of a save (so the
\* cursor each operation stores and persists is valid, not only the one
\* display_current_item leaves).
C1_CursorInvariant ==
    (~proc.load_only /\ TODO_LIST # <<>>
        /\ pc["main"] \in {"op_done", "prompt"} \cup SavePcs)
    => InRange(CURRENT_INDEX, TODO_LIST)

\* a previous at index 0 of a list of two or more has wrapped to the last index
C1_Witness ==
    /\ ~proc.load_only /\ MainDone /\ MainOp = "p"
    /\ pre.ci = 0 /\ Len(TODO_LIST) >= 2 /\ CURRENT_INDEX = Len(TODO_LIST) - 1

\* C2: the command loop and the listener thread are never both inside an
\* update of the shared session (from the first read of the cursor or list
\* by a next, previous, goto, delete or reload to the end of its save).
UpdatePcs ==
    {"nav_len", "nav_store", "g_store", "d_pop", "d_adj", "d_clamp", "d_dec_read",
     "d_dec_store", "ld_index"} \cup SavePcs
C2_MutualExclusion == ~(pc["main"] \in UpdatePcs /\ pc["hk"] \in UpdatePcs)

\* C3: after a kill of a process that had scanned and had completed an
\* operation, a --load-only run loads successfully, and the session it loads
\* is the one the killed process had after its last completed operation or
\* its live session when it was killed (what the operation in flight had
\* made of it).
C3_CrashDurability ==
    (hist.killed /\ hist.scanAtKill /\ hist.doneAtKill /\ proc.load_only)
    => /\ pc["main"] # "ld_fail"
       /\ (pc["main"] = "m_check" => Session \in {hist.lastAtKill, hist.liveAtKill})

\* C4: at every point of the save of a next, previous, goto, delete or s
\* command, the file is either what it was before the command or the
\* complete record of the live session.
C4_AtomicSave ==
    (pc["main"] \in SavePcs \ {"sv_open"} /\ MainOp \in {"n", "p", "g", "d", "s"})
    => \/ file = pre.file
       \/ file = [exists |-> TRUE, text |-> JsonDump(CURRENT_INDEX, TODO_LIST)]

\* C5: with no listener thread, when a next, previous, goto or delete that
\* changed the cursor or the list has completed, and when build_todo_list
\* has returned, the file holds the record of the live session.
C5_PersistAfterMutation ==
    /\ (MainDone /\ MainOp \in {"n", "p", "g", "d"}
          /\ (TODO_LIST # pre.list \/ CURRENT_INDEX # pre.ci))
       => RecordIsLive
    /\ (pc["main"] = "m_check" /\ ~proc.load_only) => RecordIsLive

\* a delete has completed and left a shorter, non-empty list
C5_Witness ==
    /\ MainDone /\ MainOp = "d" /\ TODO_LIST # <<>>
    /\ Len(TODO_LIST) < Len(pre.list) /\ RecordIsLive

\* C6: when a save has just completed (nothing has written to the file
\* since), loading the file returns the live session: the same cursor and the
\* same items in the same order.
JustSaved == fx["main"] # <<>> /\ fx["main"][Len(fx["main"])] = "save"
C6_RoundTrip ==
    JustSaved
    => LET res == LoadResult(file)
       IN /\ res.found /\ res.ok
          /\ res.current_index = CURRENT_INDEX
          /\ Len(res.items) = Len(TODO_LIST)
          /\ \A i \in 1..Len(TODO_LIST) : res.items[i] = TODO_LIST[i]

\* an s command has saved a list of two or more items with a cursor past 0
C6_Witness ==
    /\ JustSaved /\ MainOp = "s" /\ Len(TODO_LIST) >= 2 /\ CURRENT_INDEX >= 1
    /\ LoadResult(file).items = TODO_LIST

\* C7: a load that finds no file, or a file whose text is cut off (it does
\* not end with the closing brace), returns False to its caller: the step
\* ends in the caller's failure branch with the session untouched and the
\* process still running, having printed the error in the second case.
CutOff(text) == text = <<>> \/ text[Len(text)] # TObjClose
C7_LoadFailsClosed ==
    [][(pc["main"] = "ld_read" /\ (~file.exists \/ CutOff(file.text)))
        => /\ pc'["main"] = "ld_fail"
           /\ proc'.exit_code = -1
           /\ TODO_LIST' = TODO_LIST /\ CURRENT_INDEX' = CURRENT_INDEX
           /\ fx'["main"] = Append(fx["main"],
                               IF file.exists THEN "load_error" ELSE "load_not_found")]_vars

\* a load of a record cut off after its first items has returned False
C7_Witness ==
    /\ pc["main"] = "ld_fail" /\ file.exists /\ Len(file.text) >= 4
    /\ CutOff(file.text) /\ fx["main"] = <<"load_error">>

\* C8: a completed delete of a valid index k from a list of length n with
\* cursor c leaves the cursor at c-1 when k < c and at c when k > c, and
\* leaves the list empty when n = 1.
C8_DeleteReindex ==
    (MainDone /\ MainOp = "d" /\ ArgValid)
    => /\ (ArgIndex < pre.ci => CURRENT_INDEX = pre.ci - 1)
       /\ (ArgIndex > pre.ci => CURRENT_INDEX = pre.ci)
       /\ (Len(pre.list) = 1 => TODO_LIST = <<>>)
       /\ Len(TODO_LIST) = Len(pre.list) - 1

\* a delete before the cursor has completed
C8_Witness ==
    /\ MainDone /\ MainOp = "d" /\ ArgValid /\ ArgIndex < pre.ci
    /\ CURRENT_INDEX = pre.ci - 1

\* C9 as claimed: a completed delete of a valid index k <= c, the cursor c
\* being a valid index too, leaves the cursor at max(0, c-1).
C9_Original ==
    (MainDone /\ MainOp = "d" /\ ArgValid /\ InRange(pre.ci, pre.list)
        /\ ArgIndex <= pre.ci)
    => CURRENT_INDEX = Max0(pre.ci - 1)

\* C9 as amended: a completed delete of a valid index k leaves the cursor at
\* c-1 when k < c; when k = c it leaves the cursor at c, which is then the
\* index of the entry that followed the removed one, unless c was the last
\* index, and then at max(0, c-1).
C9_DeleteAtCursor ==
    (MainDone /\ MainOp = "d" /\ ArgValid /\ InRange(pre.ci, pre.list))
    => /\ (ArgIndex < pre.ci => CURRENT_INDEX = pre.ci - 1)
       /\ (ArgIndex = pre.ci /\ pre.ci < Len(pre.list) - 1
             => CURRENT_INDEX = pre.ci /\ TODO_LIST[CURRENT_INDEX + 1] = pre.list[pre.ci + 2])
       /\ (ArgIndex = pre.ci /\ pre.ci = Len(pre.list) - 1
             => CURRENT_INDEX = Max0(pre.ci - 1))

\* a delete of the entry under a cursor that is not on the last entry and
\* not on the first has completed, and the cursor has stayed
C9_Witness ==
    /\ MainDone /\ MainOp = "d" /\ ArgValid
    /\ ArgIndex = pre.ci /\ pre.ci >= 1 /\ pre.ci < Len(pre.list) - 1
    /\ CURRENT_INDEX = pre.ci

\* C10: a completed g or d command whose number is not a valid index of the
\* list has reported "Index out of range" and has changed neither the
\* cursor, the list nor the file, has not saved and has opened no editor.
C10_OutOfRange ==
    (MainDone /\ MainOp \in {"g", "d"} /\ cmd["main"].numeric /\ ~ArgValid)
    => /\ msg["main"] = "out_of_range"
       /\ TODO_LIST = pre.list /\ CURRENT_INDEX = pre.ci
       /\ file = pre.file
       /\ fx["main"] = <<>>

\* "g 4" on a list of three items has completed
C10_Witness ==
    /\ MainDone /\ MainOp = "g" /\ cmd["main"].numeric
    /\ Len(pre.list) = 3 /\ cmd["main"].arg = 4 /\ msg["main"] = "out_of_range"

\* C11: when the command loop has completed n consecutive next commands on
\* a non-empty list of n items, the cursor is the one the first of them
\* started from.
C11_CircularNavigation ==
    (hist.run.on /\ MainDone /\ MainOp = "n" /\ TODO_LIST # <<>>
        /\ hist.run.count = Len(TODO_LIST))
    => CURRENT_INDEX = hist.run.start

\* three next commands on three items, started from the middle one, are done
C11_Witness ==
    /\ hist.run.on /\ MainDone /\ MainOp = "n" /\ Len(TODO_LIST) = 3
    /\ hist.run.count = 3 /\ hist.run.start = 1 /\ CURRENT_INDEX = 1

\* C12: a completed n command on a non-empty list of n items with cursor c
\* leaves the cursor at (c+1) mod n, a completed p command at (c-1) mod n,
\* and a completed g command with a valid index i at i; none of them has
\* changed the list.
C12_TransitionFunctions ==
    (MainDone /\ pre.list # <<>>)
    => /\ (MainOp = "n" =>
             CURRENT_INDEX = (pre.ci + 1) % Len(pre.list) /\ TODO_LIST = pre.list)
       /\ (MainOp = "p" =>
             /\ CURRENT_INDEX = (pre.ci - 1) % Len(pre.list)
             /\ (pre.ci = 0 => CURRENT_INDEX = Len(pre.list) - 1)
             /\ TODO_LIST = pre.list)
       /\ (MainOp = "g" /\ ArgValid =>
             CURRENT_INDEX = ArgIndex /\ TODO_LIST = pre.list)

\* "g 3" from the first of three items has completed with the cursor on the
\* third
C12_Witness ==
    /\ MainDone /\ MainOp = "g" /\ ArgValid /\ Len(pre.list) = 3
    /\ pre.ci = 0 /\ ArgIndex = 2 /\ CURRENT_INDEX = 2 /\ TODO_LIST = pre.list

\* C13: an n, p or c command on an empty list does nothing but report
\* "empty": it runs only the emptiness test and returns to the prompt, it
\* does not end the process, and when it has completed the cursor, the list
\* and the file are what they were, nothing was saved or shown and no editor
\* was opened.
C13_EmptySession ==
    (MainOp \in {"n", "p", "c"} /\ pre.list = <<>>)
    => /\ pc["main"] \in {"nav_empty", "dc_empty", "op_done"}
       /\ proc.exit_code = -1
       /\ TODO_LIST = pre.list /\ CURRENT_INDEX = pre.ci /\ file = pre.file
       /\ fx["main"] = <<>>
       /\ (MainDone => msg["main"] = "empty")

\* a p command on a list emptied by a delete has completed
C13_Witness ==
    /\ MainDone /\ MainOp = "p" /\ pre.list = <<>> /\ pre.file.exists
    /\ msg["main"] = "empty" /\ TODO_LIST = <<>>

JustBuilt == pc["main"] = "m_check" /\ ~proc.load_only

\* C14 as claimed: in the list a scan has just built, any two adjacent items
\* a, b have a.file_path < b.file_path as strings, or the same file_path and
\* a.line_num <= b.line_num.
C14_Original ==
    JustBuilt
    => \A i \in 1..(Len(TODO_LIST) - 1) :
          LET a == TODO_LIST[i]
              b == TODO_LIST[i + 1]
          IN \/ SeqLess(a.file_path, b.file_path)
             \/ a.file_path = b.file_path /\ a.line_num <= b.line_num

\* C14 as amended: in the list a scan has just built, any two adjacent items
\* a, b have a.file_path before b.file_path in the order of paths (part by
\* part, each part as a string), or the same file_path and
\* a.line_num <= b.line_num.
C14_OrderingInvariant ==
    JustBuilt
    => \A i \in 1..(Len(TODO_LIST) - 1) :
          LET a == TODO_LIST[i]
              b == TODO_LIST[i + 1]
          IN \/ PathLess(SplitPath(a.file_path, <<>>), SplitPath(b.file_path, <<>>))
             \/ a.file_path = b.file_path /\ a.line_num <= b.line_num

\* a scan that found a-b/x.c before a/x.c has built a list with the two
\* findings of a/x.c first
C14_Witness ==
    /\ JustBuilt /\ Len(TODO_LIST) = 3
    /\ proc.results[1][1] = FilePaths[1]
    /\ TODO_LIST[1].file_path = PathStr(FilePaths[2])
    /\ TODO_LIST[2].file_path = PathStr(FilePaths[2])
    /\ TODO_LIST[3].file_path = PathStr(FilePaths[1])

\* The files of a tree that a scan from base reaches and keeps, whatever the
\* order of the listings: every directory on the way passes the pruning and
\* the file passes the two tests.
Reached(tree, base) ==
    {i \in Present(tree) :
        LET f == TreeFiles[i]
        IN /\ \A k \in 1..Len(f.dir) :
                 KeepDir(RootStr(base, SubSeq(f.dir, 1, k - 1)), f.dir[k])
           /\ KeepFile(PathOf(RootStr(base, f.dir)) \o <<f.name>>)}

\* the results of a scan that enumerates the files in the order of TreeFiles
RECURSIVE ResultsInOrder(_, _, _)
ResultsInOrder(tree, base, k) ==
    IF k = 0 THEN <<>>
    ELSE ResultsInOrder(tree, base, k - 1)
         \o (IF k \in Reached(tree, base) /\ tree[k] = "hit"
             THEN <<<<PathOf(RootStr(base, TreeFiles[k].dir)) \o <<TreeFiles[k].name>>,
                      process_file(tree[k]).results>>>>
             ELSE <<>>)

ScanBuilt == pc["main"] = "m_check" /\ proc.scan.state = "done"

\* C15: the list a scan builds is a function of the tree and the path given:
\* whatever the order in which the directory listings came and the workers
\* returned, it is the list built from the files taken in one fixed order.
C15_ReproducibleScan ==
    ScanBuilt
    => TODO_LIST = build_todo_list(
                      ResultsInOrder(proc.scan.tree, proc.scan.base, Len(TreeFiles)))

\* a scan has built its list from results that came in descending order of
\* their paths: b/x.c was listed and taken before a/x.c
C15_Witness ==
    /\ ScanBuilt /\ Len(proc.results) = 2 /\ Len(TODO_LIST) = 2
    /\ proc.results[1][1] = <<DirB, NameXC>>
    /\ proc.results[2][1] = <<DirA, NameXC>>
    /\ TODO_LIST[1].file_path = PathStr(<<DirA, NameXC>>)

\* the names SKIP_PATHS lists
IsDenied(name) == Slash \o name \o Slash \in SKIP_PATHS

\* C16: no file found by a scan lies in a directory below the root whose name
\* SKIP_PATHS lists, at any depth.
C16_DenylistExclusion ==
    \A k \in 1..Len(proc.results), i \in Present(proc.scan.tree) :
        LET f == TreeFiles[i]
        IN proc.results[k][1] = PathOf(RootStr(proc.scan.base, f.dir)) \o <<f.name>>
           => \A j \in 1..Len(f.dir) : ~IsDenied(f.dir[j])

ResultKeys == {proc.results[k][1] : k \in 1..Len(proc.results)}

\* C17: when a scan has built its list, every file it enumerated that could
\* not be read has been reported and is not in the results, and every
\* enumerated file with a finding is in the results with its findings; and a
\* scan ends the process only when the root is not a directory.
C17_ErrorIsolation ==
    /\ ScanBuilt =>
          \A k \in 1..Len(proc.scan.files_to_process) :
              LET f == proc.scan.files_to_process[k]
                  st == StatusOf(proc.scan.tree, proc.scan.base, f)
              IN /\ st = "unreadable" => f \in proc.scan.errors /\ f \notin ResultKeys
                 /\ st = "hit" =>
                       /\ f \notin proc.scan.errors
                       /\ \E j \in 1..Len(proc.results) :
                             proc.results[j] = <<f, FindingsUpTo(1)>>
    /\ (proc.scan.state # "none" /\ proc.exit_code # -1) => ~proc.root_ok

\* a scan of a tree with an unreadable x.c and a readable a/x.c with a
\* finding has built its list
C17_Witness ==
    /\ ScanBuilt /\ proc.scan.tree[1] = "unreadable" /\ proc.scan.tree[3] = "hit"
    /\ <<NameXC>> \in proc.scan.errors
    /\ <<DirA, NameXC>> \in ResultKeys /\ Len(TODO_LIST) = 1

\* C18: when the command loop and the listener thread have both completed
\* an operation that saved, the file is a complete, parseable record (the
\* least that a record equal to a snapshot of the session requires).
BothSaved ==
    /\ pc["main"] = "op_done" /\ pc["hk"] = "hk_done"
    /\ \E i \in 1..Len(fx["main"]) : fx["main"][i] = "save"
    /\ \E i \in 1..Len(fx["hk"]) : fx["hk"][i] = "save"
C18_ConcurrentSave ==
    BothSaved => LoadResult(file).found /\ LoadResult(file).ok

\* C19: a next, previous or goto whose editor launch fails ends neither the
\* process nor the listener thread; when the command has completed, the
\* failure has been reported, and the cursor it set is the live one and the
\* saved one.
C19_EditorFailure ==
    /\ (MainOp \in {"n", "p", "g"} /\ pre.list # <<>>)
       => /\ proc.exit_code = -1
          /\ (MainDone /\ (MainOp = "g" => ArgValid)
                /\ (proc.editor \notin {"ide", "template"} \/ proc.popen_fails))
             => /\ msg["main"] = "editor_error"
                /\ CURRENT_INDEX = IF MainOp = "g" THEN ArgIndex
                                   ELSE NavIndex(pre.ci, Delta(MainOp), Len(pre.list))
                /\ RecordIsLive
    /\ cmd["hk"].op \in {"n", "p"} => pc["hk"] # "hk_dead"

\* the record on disk when the r command began, as json.load reads it
Record == JsonLoads(pre.file.text)

\* an r command has completed on a file that exists and parses
Reloaded == MainDone /\ MainOp = "r" /\ pre.file.exists /\ Record.ok

InLoop == pc["main"] # "exited" /\ MainOp \notin {"boot", "none"}
SessionAsFound == TODO_LIST = pre.list /\ CURRENT_INDEX = pre.ci /\ file = pre.file

\* C21: a step of the command loop ends the loop only if it is the q
\* command, which ends the process with code 0; a completed unknown command
\* has reported "Unknown command" and a completed g or d command whose
\* argument is not a number has reported "Invalid index number", neither has
\* changed the cursor, the list or the file, saved or opened an editor, and
\* the next step of both is the prompt.
C21_LoopTermination ==
    [][/\ (pc["main"] = "prompt" \/ InLoop) /\ pc'["main"] = "exited"
          => pc["main"] = "prompt" /\ cmd'["main"].op = "q" /\ proc'.exit_code = 0
       /\ pc'["main"] = "op_done" /\ cmd'["main"].op = "?"
          => msg'["main"] = "unknown_command"
       /\ pc'["main"] = "op_done" /\ cmd'["main"].op \in {"g", "d"} /\ ~cmd'["main"].numeric
          => msg'["main"] = "invalid_index"
       /\ (MainDone /\ (MainOp = "?" \/ (MainOp \in {"g", "d"} /\ ~cmd["main"].numeric)))
          => /\ SessionAsFound /\ fx["main"] = <<>>
             /\ pc'["main"] = "prompt" /\ proc'.exit_code = -1
             /\ TODO_LIST' = TODO_LIST /\ CURRENT_INDEX' = CURRENT_INDEX /\ file' = file]_vars

\* a "d x" on a list of three items with the cursor on the second has
\* completed: reported, the process running, the session as it was
C21_Witness ==
    /\ MainDone /\ MainOp = "d" /\ ~cmd["main"].numeric
    /\ msg["main"] = "invalid_index" /\ proc.exit_code = -1
    /\ Len(TODO_LIST) = 3 /\ CURRENT_INDEX = 1 /\ SessionAsFound

\* main has not reached the command loop: it is in its start-up or has left
BeforeLoop == MainOp = "boot" /\ pc["main"] \in {"boot", "ld_read", "ld_fail", "exited"}
Exited == pc["main"] = "exited"

\* C22: a process that has ended by the q command has exit code 0; a scan
\* of a path that is not a directory, and a --load-only run that finds no
\* file or a file that does not parse, never get past the start of main and
\* end with a code other than 0, having built, loaded and saved nothing.
C22_ExitCodes ==
    /\ (Exited /\ MainOp = "q") => proc.exit_code = 0
    /\ (~proc.load_only /\ ~proc.root_ok)
       => /\ BeforeLoop /\ TODO_LIST = <<>> /\ file = NoFile
          /\ Exited => proc.exit_code \notin {0, -1}
    /\ (proc.load_only /\ MainOp = "boot" /\ ~(LoadResult(file).found /\ LoadResult(file).ok))
       => /\ BeforeLoop /\ TODO_LIST = <<>>
          /\ Exited => proc.exit_code \notin {0, -1}

\* a --load-only run on a record cut off after two items has ended with
\* code 1
C22_Witness ==
    /\ Exited /\ proc.load_only /\ MainOp = "boot" /\ file.exists
    /\ Len(file.text) = 5 /\ ~LoadResult(file).ok
    /\ proc.exit_code = 1 /\ msg["main"] = "no_todo_list"

\* C23: without pynput the listener thread is never started and runs no
\* operation: every step leaves it off, with no command and no effect, so
\* every change of the cursor, the list and the file is a step of the main
\* thread; and main goes on from the hotkey set-up to open the first item
\* and to the command loop, the process running.
C23_HotkeyFallback ==
    [][~proc.pynput
       => /\ pc["hk"] = "hk_off" /\ pc'["hk"] = "hk_off"
          /\ cmd'["hk"] = NoCmd /\ fx'["hk"] = <<>> /\ loc'["hk"] = NoLoc
          /\ (pc["main"] = "m_hotkeys"
                => pc'["main"] = "ed_open" /\ proc'.exit_code = -1)]_vars

\* without pynput, an n command of the command loop has completed and moved
\* the cursor, the listener off
C23_Witness ==
    /\ ~proc.pynput /\ MainDone /\ MainOp = "n" /\ CURRENT_INDEX # pre.ci
    /\ pc["hk"] = "hk_off" /\ proc.exit_code = -1

\* C24: in the list a scan has just built, two adjacent items of the same
\* file and the same line have their columns in ascending order.
C24_BuildOrdering ==
    JustBuilt
    => \A i \in 1..(Len(TODO_LIST) - 1) :
          LET a == TODO_LIST[i]
              b == TODO_LIST[i + 1]
          IN (a.file_path = b.file_path /\ a.line_num = b.line_num)
             => a.column <= b.column

\* the items of the list that name file i of FilePaths and line n
ItemsAt(i, n) ==
    {k \in 1..Len(TODO_LIST) :
        TODO_LIST[k].file_path = PathStr(FilePaths[i]) /\ TODO_LIST[k].line_num = n}
TextBuilt == JustBuilt /\ proc.scan.contents # <<>>

\* C25: when a scan of files of given text has built its list, the list has
\* as many items for each line of each file as the line has matches and no
\* other item (so a file without matches has none), the cursor is 0, and the
\* file holds the record of that list and cursor.
C25_BuildContent ==
    TextBuilt
    => /\ \A i \in 1..MaxFiles :
             LET text == proc.scan.contents[i]
             IN /\ \A n \in 1..Len(text) : Cardinality(ItemsAt(i, n)) = Len(text[n])
                /\ \A k \in 1..Len(TODO_LIST) :
                      TODO_LIST[k].file_path = PathStr(FilePaths[i])
                      => TODO_LIST[k].line_num \in 1..Len(text)
       /\ \A k \in 1..Len(TODO_LIST) :
             \E i \in 1..MaxFiles : TODO_LIST[k].file_path = PathStr(FilePaths[i])
       /\ CURRENT_INDEX = 0
       /\ RecordIsLive

\* a scan of two files, the first with no match and the second with one on
\* its second line, has built a list of one item that names the second file
C25_Witness ==
    /\ TextBuilt /\ proc.scan.contents[1] = <<>>
    /\ Len(proc.scan.contents[2]) = 2 /\ TokenCount(proc.scan.contents[2]) = 1
    /\ Len(TODO_LIST) = 1 /\ CURRENT_INDEX = 0
    /\ TODO_LIST[1].file_path = PathStr(FilePaths[2]) /\ TODO_LIST[1].line_num = 2
    /\ RecordIsLive

\* a next or previous on a non-empty list, or a goto of a valid index, and
\* the cursor it is to set
Navigating == MainOp \in {"n", "p", "g"} /\ pre.list # <<>> /\ (MainOp = "g" => ArgValid)
Target ==
    IF MainOp = "g" THEN ArgIndex ELSE (pre.ci + Delta(MainOp)) % Len(pre.list)
Effects(t, e) == {i \in 1..Len(fx[t]) : fx[t][i] = e}

\* C26: a next, previous or valid goto stores the new cursor before it
\* saves, saves before it displays and opens the editor, and when it has
\* completed it has saved once and then opened the editor once, on the item
\* at the new cursor; a delete never opens the editor, and a completed
\* delete of a valid index has saved once, as its first effect.
C26_SideEffectOrder ==
    /\ Navigating
       => /\ pc["main"] \in SavePcs => CURRENT_INDEX = Target /\ fx["main"] = <<>>
          /\ pc["main"] \in {"dc_empty", "dc_range", "dc_clamp", "dc_item", "ed_open"}
             => /\ fx["main"] # <<>> /\ fx["main"][1] = "save"
                /\ Effects("main", "open") = {} /\ RecordIsLive
          /\ MainDone
             => /\ fx["main"] = <<"save", "show", "open">>
                /\ loc["main"].opened = Target /\ CURRENT_INDEX = Target
    /\ MainOp = "d"
       => /\ Effects("main", "open") = {} /\ loc["main"].opened = -1
          /\ (MainDone /\ ArgValid)
             => fx["main"][1] = "save" /\ Effects("main", "save") = {1}

\* a delete of the first of three items, the cursor on it, has completed:
\* the item under the cursor is another one, shown but not opened
C26_Witness ==
    /\ MainDone /\ MainOp = "d" /\ ArgValid /\ ArgIndex = 0 /\ pre.ci = 0
    /\ Len(pre.list) = 3 /\ CURRENT_INDEX = 0 /\ TODO_LIST[1] # pre.list[1]
    /\ fx["main"] = <<"save", "show">>

\* C27: a completed delete of a valid index k from a list of n items has
\* left n-1 items: those that were before k, each at its index and unchanged,
\* then those that were after k, each one index lower and unchanged; and the
\* only steps that change the list are the pop of a delete, the load of a
\* reload or of a --load-only start, and the build of a scan.
C27_DeleteFrame ==
    [][/\ (MainDone /\ MainOp = "d" /\ ArgValid)
          => /\ Len(TODO_LIST) = Len(pre.list) - 1
             /\ \A i \in 1..Len(TODO_LIST) :
                   TODO_LIST[i] = IF i <= ArgIndex THEN pre.list[i] ELSE pre.list[i + 1]
       /\ TODO_LIST' # TODO_LIST
          => \/ pc["main"] = "d_pop" /\ MainOp = "d"
             \/ pc["main"] = "ld_read" /\ MainOp \in {"r", "boot"}
             \/ pc["main"] = "boot" /\ ~proc.load_only]_vars

\* a delete of the second of three items has completed and has left the
\* first and the third, in this order
C27_Witness ==
    /\ MainDone /\ MainOp = "d" /\ ArgValid /\ ArgIndex = 1 /\ Len(pre.list) = 3
    /\ TODO_LIST = <<pre.list[1], pre.list[3]>>

\* C28: no directory that the walk has still to enter (to list) lies in, or
\* is, a directory whose name SKIP_PATHS lists.
C28_PruningDuringWalk ==
    \A k \in 1..Len(proc.scan.dirs) :
        \A j \in 1..Len(proc.scan.dirs[k]) : ~IsDenied(proc.scan.dirs[k][j])

\* every file of files_to_process has had its worker return and its result
\* taken, and find_camel_case_variables has returned
AllTasksDone ==
    /\ proc.scan.state = "done"
    /\ proc.scan.returned = 1..Len(proc.scan.files_to_process)
    /\ proc.scan.taken = Len(proc.scan.files_to_process)

\* C29: once main is past the scan (it builds, saves, displays or opens), and
\* whenever the list is non-empty, the file exists or anything was saved,
\* shown or opened, every worker of the scan has returned.
C29_ScanBarrier ==
    (\/ pc["main"] \notin {"boot", "walk", "map", "exited"}
     \/ TODO_LIST # <<>> \/ file.exists \/ fx["main"] # <<>>)
    => AllTasksDone

\* after a scan of three files the first item has been shown and opened
C29_Witness ==
    /\ Len(proc.scan.files_to_process) = 3 /\ AllTasksDone
    /\ fx["main"] = <<"save", "show", "open">> /\ TODO_LIST # <<>>

ListenerAlive == pc["hk"] \notin {"hk_off", "hk_dead"}
Opened(t) == fx[t] # <<>> /\ fx[t][Len(fx[t])] = "open"

LineDone == pc["main"] = "pf_line" /\ proc.scan.i > 0
FindingsAt(n) ==
    LET At(f) == f.line_num = n IN SelectSeq(proc.scan.findings, At)
Min2(a, b) == IF a < b THEN a ELSE b

\* C31: when the third pass has searched for line i of a file of L lines,
\* the lines it searched are those from max(0, i-10) through
\* min(L-1, i+10), both included: ten lines before and ten after.
C31_ContextWindow ==
    LineDone /\ proc.scan.window # <<>> =>
        LET i == proc.scan.i - 1
            L == Len(proc.scan.lines)
        IN proc.scan.window = <<Max0(i - 10), Min2(L - 1, i + 10)>>

\* C32: a line that begins with a comment marker or a preprocessor marker,
\* and a line that contains a deny-listed keyword, has no finding from any
\* of the three passes.
C32_SkippedLines ==
    \A k \in 1..proc.scan.i :
        LET line == proc.scan.lines[k]
        IN line.lead \in {"//", "#"} \/ line.deny => FindingsAt(k) = <<>>

\* both threads have completed a next, the only operations of the session
BothAdvanced ==
    /\ MainDone /\ MainOp = "n"
    /\ pc["hk"] = "hk_done" /\ cmd["hk"].op = "n"
    /\ hist.keys = 1 /\ hist.cmds = 1

\* C33: no lost update: when a next of the listener thread and a next of
\* the command loop, started from cursor 0 on a list of n items in any
\* interleaving, have both completed, the cursor is 2 mod n.
C33_NoLostUpdate ==
    BothAdvanced /\ TODO_LIST # <<>> => CURRENT_INDEX = 2 % Len(TODO_LIST)

\* the exceptions of a division by a zero length and of an index out of range
IndexFaults == {"ZeroDivisionError", "IndexError"}

\* C34: while the command loop runs a delete and the listener thread a next
\* or a previous, in any interleaving, neither thread ends with an unhandled
\* ZeroDivisionError or IndexError.
C34_NoCrash ==
    MainOp = "d" /\ cmd["hk"].op \in {"n", "p"} =>
        /\ ~(pc["hk"] = "hk_dead" /\ msg["hk"] \in IndexFaults)
        /\ ~(pc["main"] = "exited" /\ msg["main"] \in IndexFaults)

\* thread t has just returned from save_todo_list, and the file is what its
\* json.dump wrote: the record of the session it saved
SavedBy(t) ==
    /\ fx[t] # <<>> /\ fx[t][Len(fx[t])] = "save"
    /\ file.exists /\ file.text = JsonDump(CURRENT_INDEX, TODO_LIST)

\* C35: in every interleaving of the listener thread and the command loop,
\* a complete record that a save has written has an empty item list or a
\* current_index that is a valid index of its items.
C35_RecordWellFormed ==
    \A t \in Threads :
        SavedBy(t) =>
            LET data == JsonLoads(file.text)
            IN data.items = <<>> \/ InRange(data.current_index, data.items)

\* load_todo_list has returned False to main or to the r command
LoadReturnedFalse == pc["main"] = "ld_fail"

\* C36: when load_todo_list returns False, at resume or at a reload, for any
\* content of the file, the list and the cursor are what they were before
\* the call (the cursor is then not None, the value a null leaves).
C36_FailedLoadFrame ==
    LoadReturnedFalse =>
        /\ TODO_LIST = pre.list
        /\ ~loc["main"].null
        /\ CURRENT_INDEX = pre.ci

AfterLoad == MainOp = "r" \/ (MainOp = "boot" /\ proc.load_only)
RecordCursor == JsonLoads(file.text).current_index

\* C38: after a load that succeeded with a non-empty item list, whatever
\* integer its current_index, the item displayed and the item opened in the
\* editor are read at an index within 0..length-1, and no IndexError is
\* raised.
C38_InRangeAfterLoad ==
    AfterLoad /\ TODO_LIST # <<>> =>
        /\ (pc["main"] \in {"dc_item", "ed_open"} => InRange(CURRENT_INDEX, TODO_LIST))
        /\ (loc["main"].opened # -1 => InRange(loc["main"].opened, TODO_LIST))
        /\ msg["main"] # "IndexError"

\* a --load-only run has opened item 0 in the editor after loading a record
\* whose current_index is negative or past the end of its items
C38_Witness ==
    /\ MainOp = "boot" /\ proc.load_only /\ MainDone
    /\ loc["main"].opened = 0
    /\ ~InRange(RecordCursor, TODO_LIST)

\* the one hotkey of the session has fired and its callback has completed,
\* and the cursor it computed from the cursor 0 the scan left
HotkeyCompleted == pc["hk"] = "hk_done" /\ hist.keys = 1 /\ TODO_LIST # <<>>
HotkeyCursor == ((IF cmd["hk"].op = "p" THEN -1 ELSE 1) + Len(TODO_LIST)) % Len(TODO_LIST)

\* C39: once a next or previous of the listener thread has completed, the
\* command loop works on the cursor it stored, with no reload: before any
\* command and through a c command the live cursor is the one the hotkey
\* computed, and an n command that found that cursor leaves its successor.
C39_HotkeyVisible ==
    HotkeyCompleted =>
        /\ (hist.cmds = 0 \/ (hist.cmds = 1 /\ MainOp = "c")
               => CURRENT_INDEX = HotkeyCursor)
        /\ (hist.cmds = 1 /\ MainOp = "n" /\ MainDone /\ pre.ci = HotkeyCursor
                /\ Len(TODO_LIST) >= 2
               => CURRENT_INDEX = (HotkeyCursor + 1) % Len(TODO_LIST))

\* a c command that was given after the hotkey had moved the cursor off 0
\* has displayed an item
C39_Witness ==
    /\ HotkeyCompleted /\ MainDone /\ MainOp = "c"
    /\ pre.ci = HotkeyCursor /\ HotkeyCursor # 0
    /\ fx["main"] = <<"show">>

====
